---- MODULE Spec2Model ----
(***************************************************************************)
(* Verification model of lmars/pss-demo: the connection manager            *)
(* (connmanager.go), the Kademlia overlay table (swarm/network/kademlia.go)*)
(* and the pss messaging engine (swarm/pss/pss.go, types.go).              *)
(* Each component has its own specification over its own variables; the   *)
(* variables of the other components stay at their initial values.         *)
(***************************************************************************)
EXTENDS Integers, Sequences, FiniteSets, TLC

VARIABLES
    \* connection manager (connmanager.go)
    cmBuild,      \* which of the two connmanager.go sources is built
    clients,      \* connManager.clients : client IP -> node (NoNode = no entry)
    assigned,     \* connManager.assigned : set of node ids
    handed,       \* history: <<client IP, node>> pairs proxied by ServeHTTP
    cmLast,       \* the last request served, its response and the state before it
    \* Kademlia table (swarm/network/kademlia.go)
    kAddrs,       \* Kademlia.addrs : known peer address -> entry (NoEntry = absent)
    kConns,       \* Kademlia.conns : addresses of the live peers
    kDepth,       \* Kademlia.depth : uint8, last depth of saturation
    kNow,         \* time.Now(), in units of RetryInterval
    kPanic,       \* Off panicked ("connected peer not found")
    kLast,        \* the last table operation, its arguments and results
    \* neighbourhoodDepth applied to an arbitrary live set
    probe,
    \* pss messaging engine (swarm/pss/pss.go), one entry per modelled node
    pNow,         \* time.Now(), in clock ticks
    pCfg,         \* fixed in a behaviour: live peers and handlers of each node,
                  \* the inbound messages and send requests that may occur
    fwdCache,     \* Pss.fwdCache of each node: set of entries, one per digest
    inbox,        \* messages sent to a node and not yet read, per sending peer
    calls,        \* the forward calls made so far, running or returned
    pending,      \* messages decrypted by process and not yet dispatched
    handled,      \* history: what handlePssMsg did with each message
    dispatched,   \* history: the handler dispatches of process
    pCount,       \* how many inbound messages and send requests occurred
    \* pss symmetric keys of one node
    wSymKeys,     \* whisper backend: key id (position) -> key bytes
    symKeyPool,   \* Pss.symKeyPool : <<key id, topic>> -> pssPeer
    symKeyDecryptCache,        \* Pss.symKeyDecryptCache : slot -> key id
    symKeyDecryptCacheCursor,  \* Pss.symKeyDecryptCacheCursor
    keyPanic,     \* a nil pointer was dereferenced
    keyLast,      \* the last key operation and the pool before it
    \* pss handler registry (Pss.handlers) and the handler loop of process
    hTopics,      \* Pss.handlers : topic -> its map of handlers (NoMap = no entry)
    hMaps,        \* the maps of handlers made so far : map -> set of handler keys
    hRegs,        \* the Register calls made : handler key -> topic, closure called
    hLoop,        \* the handler loop of the process call in progress
    \* the key garbage collection task of Pss.Start
    gc,           \* ticks of the clean interval, the task's position, quitC
    \* goroutines calling into the Kademlia table or into Pss
    lk,           \* each goroutine's operation and position, the lock, the retry counter
    \* the pruning task of Kademlia.Prune
    pr            \* the live peers, the ticks waiting, the task's position, the Drop calls

cmVars == <<cmBuild, clients, assigned, handed, cmLast>>
kadVars == <<kAddrs, kConns, kDepth, kNow, kPanic, kLast>>
pssVars == <<pNow, pCfg, fwdCache, inbox, calls, pending, handled, dispatched, pCount>>
keyVars == <<wSymKeys, symKeyPool, symKeyDecryptCache, symKeyDecryptCacheCursor,
             keyPanic, keyLast>>
regVars == <<hTopics, hMaps, hRegs, hLoop>>
vars == <<cmVars, kadVars, probe, pssVars, keyVars, regVars, gc, lk, pr>>

(***************************************************************************)
(* Overlay addresses and proximity order                                   *)
(***************************************************************************)
\* addressLength (bytes of an overlay address) and the bits of one byte,
\* scaled down from 32 and 8
AddrLen == 2
ByteBits == 2
AddrBits == AddrLen * ByteBits

\* an address is its sequence of bits, most significant first
Addresses == [1..AddrBits -> {0, 1}]
\* the address whose one-bits are at the positions in ones
AddrOf(ones) == [i \in 1..AddrBits |-> IF i \in ones THEN 1 ELSE 0]

SetMin(S) == CHOOSE x \in S : \A y \in S : x <= y
SetMax(S) == CHOOSE x \in S : \A y \in S : x >= y

\* pof: the proximity order of two addresses, the number of leading bits
\* they share (AddrBits when they are equal)
PO(a, b) ==
    LET diff == {i \in 1..AddrBits : a[i] # b[i]}
    IN  IF diff = {} THEN AddrBits ELSE SetMin(diff) - 1

\* the sequences that list every element of S once
Perms(S) ==
    {f \in [1..Cardinality(S) -> S] : \A i, j \in 1..Cardinality(S) : i # j => f[i] # f[j]}

\* pot.EachNeighbour(base): the orders in which the elements of S can be
\* visited, nearest to base first; elements of equal proximity order come in
\* the order of the pot's internal structure, which is any order
NeighbourOrders(S, base) ==
    {f \in Perms(S) : \A i, j \in 1..Cardinality(S) :
                          i < j => PO(base, f[i]) >= PO(base, f[j])}

\* one nearest-first order of S, built by taking a nearest element at a time
RECURSIVE NeighbourSeq(_, _)
NeighbourSeq(S, base) ==
    IF S = {} THEN <<>>
    ELSE LET p == CHOOSE x \in S : \A y \in S : PO(base, x) >= PO(base, y)
         IN  <<p>> \o NeighbourSeq(S \ {p}, base)

\* the elements of S in the bin of proximity order po relative to base
Bin(S, base, po) == {p \in S : PO(base, p) = po}

RECURSIVE SortedSeq(_)
SortedSeq(S) == IF S = {} THEN <<>> ELSE <<SetMin(S)>> \o SortedSeq(S \ {SetMin(S)})

\* pot.EachBin(base, pof, from): the non-empty bins of S with proximity order
\* >= from, in ascending order, each with its size
BinSeq(S, base, from) ==
    LET pos == SortedSeq({PO(base, p) : p \in S} \cap from..AddrBits)
    IN  [i \in 1..Len(pos) |-> [po |-> pos[i], size |-> Cardinality(Bin(S, base, pos[i]))]]

(***************************************************************************)
(* Connection manager                                                      *)
(***************************************************************************)
\* --node-count of the simulation network (NewPssSimulation needs >= 2)
NodeCount == 2
\* how many distinct client IPs and source ports send requests
NumIPs == 3
NumPorts == 2

NoNode == 0
SimNodes == 1..NodeCount
ClientIPs == 1..NumIPs
\* req.RemoteAddr: "ip:port" as <<ip, port>>, or a value SplitHostPort rejects
RemoteAddrs == (ClientIPs \X (1..NumPorts)) \cup {<<>>}
Paths == {"/", "/list"}

\* the first source has the client lookup, the second has it commented out
\* and adds the /list endpoint
Builds == {"lookup", "nolookup"}

\* net.SplitHostPort(req.RemoteAddr)
SplitHostPort(addr) ==
    IF Len(addr) = 2 THEN [host |-> addr[1], err |-> FALSE]
                     ELSE [host |-> NoNode, err |-> TRUE]

\* mutant of FirstUnassigned: the scan skips the first node of the network
FirstUnassigned_skipFirst(as) ==
    IF (SimNodes \ {1}) \ as = {} THEN NoNode
    ELSE CHOOSE n \in (SimNodes \ {1}) \ as : \A m \in (SimNodes \ {1}) \ as : n <= m

\* for _, node := range nodes { if _, ok := c.assigned[node.ID()]; !ok {...} }
\* c.net.GetNodes() returns the nodes in creation order
FirstUnassigned(as) ==
    IF SimNodes \ as = {} THEN NoNode
    ELSE CHOOSE n \in SimNodes \ as : \A m \in SimNodes \ as : n <= m

\* mutant of getNode: the node handed out is not recorded in c.assigned
getNode_noMark(build, cl, as, addr) ==
    LET sp == SplitHostPort(addr)
        free == FirstUnassigned(as)
    IN  IF sp.err
        THEN [node |-> NoNode, ok |-> FALSE, clients |-> cl, assigned |-> as]
        ELSE IF build = "lookup" /\ cl[sp.host] # NoNode
        THEN [node |-> cl[sp.host], ok |-> TRUE, clients |-> cl, assigned |-> as]
        ELSE IF free # NoNode
        THEN [node |-> free, ok |-> TRUE,
              clients |-> [cl EXCEPT ![sp.host] = free],
              assigned |-> as]
        ELSE [node |-> NoNode, ok |-> FALSE, clients |-> cl, assigned |-> as]

\* mutant of getNode: with no unassigned node left, the node of the lowest
\* client IP that has one is taken from that client and handed out
getNode_reuse(build, cl, as, addr) ==
    LET sp == SplitHostPort(addr)
        free == FirstUnassigned(as)
        holders == {ip \in ClientIPs : cl[ip] # NoNode}
        victim == CHOOSE ip \in holders : \A q \in holders : ip <= q
    IN  IF sp.err
        THEN [node |-> NoNode, ok |-> FALSE, clients |-> cl, assigned |-> as]
        ELSE IF build = "lookup" /\ cl[sp.host] # NoNode
        THEN [node |-> cl[sp.host], ok |-> TRUE, clients |-> cl, assigned |-> as]
        ELSE IF free # NoNode
        THEN [node |-> free, ok |-> TRUE,
              clients |-> [cl EXCEPT ![sp.host] = free],
              assigned |-> as \cup {free}]
        ELSE IF holders # {} /\ victim # sp.host
        THEN [node |-> cl[victim], ok |-> TRUE,
              clients |-> [cl EXCEPT ![victim] = NoNode, ![sp.host] = cl[victim]],
              assigned |-> as]
        ELSE [node |-> NoNode, ok |-> FALSE, clients |-> cl, assigned |-> as]

\* connManager.getNode: the node and ok it returns, and the maps after it
getNode(build, cl, as, addr) ==
    LET sp == SplitHostPort(addr)
        free == FirstUnassigned(as)
    IN  IF sp.err
        THEN [node |-> NoNode, ok |-> FALSE, clients |-> cl, assigned |-> as]
        ELSE IF build = "lookup" /\ cl[sp.host] # NoNode
        THEN [node |-> cl[sp.host], ok |-> TRUE, clients |-> cl, assigned |-> as]
        ELSE IF free # NoNode
        THEN [node |-> free, ok |-> TRUE,
              clients |-> [cl EXCEPT ![sp.host] = free],
              assigned |-> as \cup {free}]
        ELSE [node |-> NoNode, ok |-> FALSE, clients |-> cl, assigned |-> as]

\* connManager.ServeHTTP for one request
ServeHTTP(addr, path) ==
    LET r == getNode(cmBuild, clients, assigned, addr)
        before == [clients |-> clients, assigned |-> assigned]
    IN  IF cmBuild = "nolookup" /\ path = "/list"
        THEN /\ cmLast' = [addr |-> addr, path |-> path, status |-> 200,
                           node |-> NoNode, before |-> before]
             /\ UNCHANGED <<cmBuild, clients, assigned, handed>>
        ELSE /\ clients' = r.clients
             /\ assigned' = r.assigned
             /\ handed' = IF r.ok THEN handed \cup {<<SplitHostPort(addr).host, r.node>>}
                                  ELSE handed
             /\ cmLast' = [addr |-> addr, path |-> path,
                           status |-> IF r.ok THEN 101 ELSE 503,
                           node |-> r.node, before |-> before]
             /\ UNCHANGED cmBuild

\* newConnManager: empty maps, no request served yet
NoRequest == [addr |-> <<>>, path |-> "/", status |-> 0, node |-> NoNode,
              before |-> [clients |-> [ip \in ClientIPs |-> NoNode], assigned |-> {}]]

CMRequest ==
    /\ \E addr \in RemoteAddrs, path \in Paths : ServeHTTP(addr, path)
    /\ UNCHANGED <<kadVars, probe, pssVars, keyVars, regVars, gc, lk, pr>>

CMNext == CMRequest

(***************************************************************************)
(* Kademlia table                                                          *)
(***************************************************************************)
\* KadParams as set for the demo network (the services of the simulation)
MinProxBinSize == 2
MinBinSize == 1
MaxBinSize == 3
RetryExponent == 2
\* MaxRetries, scaled down from 1000
MaxRetries == 1
\* RetryInterval in time units, the time that passes between two readings
\* of the clock, and the last reading: after one tick the wait allows more
\* than MaxRetries retries, so that the limit itself decides
RetryInterval == 1
TickLen == 4
MaxTime == 4

\* Kademlia.base and the peer addresses the table hears of:
\* proximity orders 0, 1, 2 and 2 relative to the base
kBase == AddrOf({})
KadPeers == {AddrOf({1}), AddrOf({2}), AddrOf({3}), AddrOf({3, 4})}
NoPeer == <<>>

Known == DOMAIN kAddrs

\* newEntry(p): conn tells whether p is an OverlayConn (e.conn() != nil)
newEntry(conn, now) == [conn |-> conn, seenAt |-> now, retries |-> 0]

\* mutant of neighbourhoodDepth: the count is compared with <= , so the
\* iteration stops one peer later
RECURSIVE ndIter_offByOne(_, _, _, _, _)
ndIter_offByOne(seq, base, i, size, depth) ==
    IF i > Len(seq) THEN depth
    ELSE IF size + 1 <= MinProxBinSize
         THEN ndIter_offByOne(seq, base, i + 1, size + 1, PO(base, seq[i]))
         ELSE PO(base, seq[i])
neighbourhoodDepth_offByOne(cs, base) ==
    IF Cardinality(cs) < MinProxBinSize THEN 0
    ELSE ndIter_offByOne(NeighbourSeq(cs, base), base, 1, 0, 0)

\* f of neighbourhoodDepth applied along conns.EachNeighbour(k.base, pof, f):
\* size++; depth = i; return size < k.MinProxBinSize
RECURSIVE ndIter(_, _, _, _, _)
ndIter(seq, base, i, size, depth) ==
    IF i > Len(seq) THEN depth
    ELSE IF size + 1 < MinProxBinSize
         THEN ndIter(seq, base, i + 1, size + 1, PO(base, seq[i]))
         ELSE PO(base, seq[i])

\* Kademlia.neighbourhoodDepth over the live peers cs
neighbourhoodDepth(cs, base) ==
    IF Cardinality(cs) < MinProxBinSize THEN 0
    ELSE ndIter(NeighbourSeq(cs, base), base, 1, 0, 0)

\* the callback of saturation along addrs.EachBin(k.base, pof, 0, ...):
\* prev++; return prev == po && size >= n
RECURSIVE satIter(_, _, _, _)
satIter(bins, n, i, prev) ==
    IF i > Len(bins) THEN prev
    ELSE IF prev + 1 = bins[i].po /\ bins[i].size >= n
         THEN satIter(bins, n, i + 1, prev + 1)
         ELSE prev + 1

\* mutant of saturation: the neighbourhood depth alone, the known bins ignored
saturation_depthOnly(addrs, cs, base, n) == neighbourhoodDepth(cs, base)

\* Kademlia.saturation(n)
saturation(addrs, cs, base, n) ==
    LET prev == satIter(BinSeq(DOMAIN addrs, base, 0), n, 1, -1)
        depth == neighbourhoodDepth(cs, base)
    IN  IF depth < prev THEN depth ELSE prev

\* uint8(x)
Uint8(x) == x % 256

\* Go's integer division, truncating toward zero
TruncDiv(a, b) == IF a >= 0 THEN a \div b ELSE -((-a) \div b)

\* rand.Intn(300000): its extremes
RandVals == {0, 299999}

\* div of callable: k.RetryExponent plus the jitter drawn from r
RetryDiv(r) == RetryExponent + TruncDiv((150000 - r) * RetryExponent, 1000000)
\* the values div can take
RetryDivs == {RetryDiv(r) : r \in RandVals}

\* for delta := timeAgo; delta > k.RetryInterval; delta /= div { retries++ }
RECURSIVE AllowedRetries(_, _)
AllowedRetries(delta, div) ==
    IF delta > RetryInterval THEN 1 + AllowedRetries(TruncDiv(delta, div), div) ELSE 0

\* mutant of callable: the limit of MaxRetries is not looked at
callable_noLimit(e, now, reachable, div) ==
    IF e.conn
    THEN [ok |-> FALSE, entry |-> e]
    ELSE IF AllowedRetries(now - e.seenAt, div) < e.retries
    THEN [ok |-> FALSE, entry |-> e]
    ELSE IF ~reachable
    THEN [ok |-> FALSE, entry |-> e]
    ELSE [ok |-> TRUE, entry |-> [e EXCEPT !.retries = e.retries + 1]]

\* mutant of callable: the retry counter is not incremented
callable_noIncrement(e, now, reachable, div) ==
    IF e.conn \/ e.retries > MaxRetries
    THEN [ok |-> FALSE, entry |-> e]
    ELSE IF AllowedRetries(now - e.seenAt, div) < e.retries
    THEN [ok |-> FALSE, entry |-> e]
    ELSE [ok |-> reachable, entry |-> e]

\* Kademlia.callable(val) at time now: whether the entry's address is
\* returned, and the entry afterwards. reachable is the answer of k.Reachable
\* (TRUE when none is configured), div the divisor the random draw gave
callable(e, now, reachable, div) ==
    IF e.conn \/ e.retries > MaxRetries
    THEN [ok |-> FALSE, entry |-> e]
    ELSE IF AllowedRetries(now - e.seenAt, div) < e.retries
    THEN [ok |-> FALSE, entry |-> e]
    ELSE IF ~reachable
    THEN [ok |-> FALSE, entry |-> e]
    ELSE [ok |-> TRUE, entry |-> [e EXCEPT !.retries = e.retries + 1]]

\* mutant of the walks of SuggestPeer: the walk does not end at a peer of
\* proximity order below stopBelow
RECURSIVE FirstCallable_noStop(_, _, _, _, _, _)
FirstCallable_noStop(seq, i, stopBelow, addrs, reach, r) ==
    IF i > Len(seq) THEN 0
    ELSE IF callable(addrs[seq[i]], kNow, reach[seq[i]], r).ok THEN i
    ELSE FirstCallable_noStop(seq, i + 1, stopBelow, addrs, reach, r)

\* the position in seq, from i on, of the first peer callable returns, 0 if
\* there is none; the walk ends at a peer of proximity order below stopBelow
RECURSIVE FirstCallable(_, _, _, _, _, _)
FirstCallable(seq, i, stopBelow, addrs, reach, r) ==
    IF i > Len(seq) THEN 0
    ELSE IF PO(kBase, seq[i]) < stopBelow THEN 0
    ELSE IF callable(addrs[seq[i]], kNow, reach[seq[i]], r).ok THEN i
    ELSE FirstCallable(seq, i + 1, stopBelow, addrs, reach, r)

\* the callback of SuggestPeer along conns.EachBin(k.base, pof, 0, ...):
\* st = [prev, bpo, minsize]
RECURSIVE bpoIter(_, _, _, _)
bpoIter(bins, i, depth, st) ==
    IF i > Len(bins) THEN st.bpo
    ELSE LET po == bins[i].po
             size == bins[i].size
             gaps == [j \in 1..(po - (st.prev + 1)) |-> st.prev + j]
             minsize1 == IF Len(gaps) > 0 THEN 0 ELSE st.minsize
             bpo1 == st.bpo \o gaps
             short == size < minsize1
             st2 == [prev |-> po,
                     bpo |-> IF short THEN Append(bpo1, po) ELSE bpo1,
                     minsize |-> IF short THEN size ELSE minsize1]
         IN  IF size > 0 /\ po < depth
             THEN bpoIter(bins, i + 1, depth, st2)
             ELSE st2.bpo

\* the bin SuggestPeer takes its second candidate from: the peers of the
\* first non-empty known bin from nxt = bpo[0] on, none if that bin is not
\* below depth or no bin is short
SuggestBpo ==
    bpoIter(BinSeq(kConns, kBase, 0), 1, neighbourhoodDepth(kConns, kBase),
            [prev |-> -1, bpo |-> <<>>, minsize |-> MinBinSize])
SuggestBin ==
    LET kbins == IF Len(SuggestBpo) = 0 THEN <<>> ELSE BinSeq(Known, kBase, SuggestBpo[1])
    IN  IF Len(kbins) > 0 /\ kbins[1].po < neighbourhoodDepth(kConns, kBase)
        THEN Bin(Known, kBase, kbins[1].po)
        ELSE {}

\* mutant of SuggestPeer: a request for the short bin always comes with
\* want = true
SuggestPeerResult_alwaysWant(ord, inBin, reach, r) ==
    LET depth == neighbourhoodDepth(kConns, kBase)
        i1 == FirstCallable(ord, 1, depth, kAddrs, reach, r)
        bpo == SuggestBpo
        nxt == bpo[1]
        i2 == FirstCallable(inBin, 1, 0, kAddrs, reach, r)
        took(p) == [kAddrs EXCEPT ![p] = callable(kAddrs[p], kNow, reach[p], r).entry]
    IN  IF i1 # 0
        THEN [a |-> ord[i1], o |-> 0, want |-> FALSE,
              addrs |-> took(ord[i1]), depth |-> kDepth, phase |-> 1]
        ELSE IF Len(bpo) = 0
        THEN [a |-> NoPeer, o |-> 0, want |-> FALSE,
              addrs |-> kAddrs, depth |-> kDepth, phase |-> 2]
        ELSE IF i2 # 0
        THEN [a |-> inBin[i2], o |-> 0, want |-> FALSE,
              addrs |-> took(inBin[i2]), depth |-> kDepth, phase |-> 3]
        ELSE [a |-> NoPeer, o |-> nxt, want |-> TRUE,
              addrs |-> kAddrs,
              depth |-> IF Uint8(nxt) < kDepth THEN Uint8(nxt) ELSE kDepth,
              phase |-> 4]

\* Kademlia.SuggestPeer: the values returned and the table afterwards.
\* ord is the order of addrs.EachNeighbour, inBin the order in which the
\* iterator of the bin offered by addrs.EachBin visits its peers
SuggestPeerResult(ord, inBin, reach, r) ==
    LET depth == neighbourhoodDepth(kConns, kBase)
        i1 == FirstCallable(ord, 1, depth, kAddrs, reach, r)
        bpo == SuggestBpo
        nxt == bpo[1]
        i2 == FirstCallable(inBin, 1, 0, kAddrs, reach, r)
        took(p) == [kAddrs EXCEPT ![p] = callable(kAddrs[p], kNow, reach[p], r).entry]
    IN  IF i1 # 0
        THEN [a |-> ord[i1], o |-> 0, want |-> FALSE,
              addrs |-> took(ord[i1]), depth |-> kDepth, phase |-> 1]
        ELSE IF Len(bpo) = 0
        THEN [a |-> NoPeer, o |-> 0, want |-> FALSE,
              addrs |-> kAddrs, depth |-> kDepth, phase |-> 2]
        ELSE IF i2 # 0
        THEN [a |-> inBin[i2], o |-> 0, want |-> FALSE,
              addrs |-> took(inBin[i2]), depth |-> kDepth, phase |-> 3]
        ELSE [a |-> NoPeer, o |-> nxt, want |-> Uint8(nxt) < kDepth,
              addrs |-> kAddrs,
              depth |-> IF Uint8(nxt) < kDepth THEN Uint8(nxt) ELSE kDepth,
              phase |-> 4]

\* the answers k.Reachable may give: it approves every peer (also when no
\* predicate is configured) or rejects one of them
ReachChoices ==
    {[p \in KadPeers \cup {kBase} |-> p # q] : q \in KadPeers \cup {kBase}}

\* mutant of the loop of Register: a known address gets a fresh record too
RECURSIVE RegisterLoop_overwrite(_, _, _, _)
RegisterLoop_overwrite(addrs, peers, i, now) ==
    IF i > Len(peers) THEN [addrs |-> addrs, err |-> FALSE]
    ELSE IF peers[i] = kBase THEN [addrs |-> addrs, err |-> TRUE]
    ELSE RegisterLoop_overwrite((peers[i] :> newEntry(FALSE, now)) @@ addrs,
                                peers, i + 1, now)

\* the loop of Register over peers: the known index afterwards and whether
\* the is-self error ended it
RECURSIVE RegisterLoop(_, _, _, _)
RegisterLoop(addrs, peers, i, now) ==
    IF i > Len(peers) THEN [addrs |-> addrs, err |-> FALSE]
    ELSE IF peers[i] = kBase THEN [addrs |-> addrs, err |-> TRUE]
    ELSE RegisterLoop(IF peers[i] \in DOMAIN addrs THEN addrs
                      ELSE (peers[i] :> newEntry(FALSE, now)) @@ addrs,
                      peers, i + 1, now)

\* Register is called with one address, or with an address followed by the
\* base address (two other addresses act as two calls with one, and nothing
\* after the base address is looked at)
RegisterInputs ==
    [1..1 -> KadPeers \cup {kBase}]
        \cup {s \in [1..2 -> KadPeers \cup {kBase}] : s[1] # kBase /\ s[2] = kBase}

\* kLast: op the operation, a its peer (argument or result), o and flag the
\* values it returned, self whether Register was given the base address,
\* depthBefore the cached depth before it, phase the exit SuggestPeer took,
\* wasKnown and wasLive whether the peer of On or Off was in k.addrs and in
\* k.conns before the call, exhausted whether it was known with more than
\* MaxRetries retries; for Register, wasKnown and exhausted tell the same of
\* some peer its loop reached; rejected the offline peers k.Reachable refused
\* during SuggestPeer
NoOp == [op |-> "none", a |-> NoPeer, o |-> 0, flag |-> FALSE, self |-> FALSE,
         depthBefore |-> 0, phase |-> 0,
         wasKnown |-> FALSE, wasLive |-> FALSE, exhausted |-> FALSE, rejected |-> {}]

\* the peers the loop of Register reaches: those before the base address
Reached(peers) ==
    {peers[i] : i \in {j \in 1..Len(peers) : \A h \in 1..j : peers[h] # kBase}}

\* Kademlia.Register(peers)
Register(peers) ==
    \E res \in {RegisterLoop(kAddrs, peers, 1, kNow)} :
        /\ ~kPanic
        /\ kAddrs' = res.addrs
        /\ kLast' = [NoOp EXCEPT !.op = "Register", !.flag = res.err,
                                 !.self = (\E i \in 1..Len(peers) : peers[i] = kBase),
                                 !.depthBefore = kDepth,
                                 !.wasKnown = (Reached(peers) \cap Known # {}),
                                 !.exhausted = (\E p \in Reached(peers) \cap Known :
                                                    kAddrs[p].retries > MaxRetries)]
        /\ UNCHANGED <<kConns, kDepth, kNow, kPanic>>

\* mutant of On: the peer is entered into the live index only
On_connsOnly(p) ==
    /\ ~kPanic
    /\ kConns' = kConns \cup {p}
    /\ kLast' = [NoOp EXCEPT !.op = "On", !.a = p, !.o = kDepth, !.depthBefore = kDepth,
                             !.wasKnown = (p \in Known), !.wasLive = (p \in kConns)]
    /\ UNCHANGED <<kAddrs, kDepth, kNow, kPanic>>

\* Kademlia.On(p): o is the depth returned, flag is changed
On(p) ==
    LET ins == p \notin kConns
        conns1 == kConns \cup {p}
        addrs1 == IF ins THEN (p :> newEntry(TRUE, kNow)) @@ kAddrs ELSE kAddrs
    IN  \E depth \in {Uint8(saturation(addrs1, conns1, kBase, MinBinSize))} :
        /\ ~kPanic
        /\ kConns' = conns1
        /\ kAddrs' = addrs1
        /\ kDepth' = depth
        /\ kLast' = [NoOp EXCEPT !.op = "On", !.a = p, !.o = depth,
                                 !.flag = (depth # kDepth), !.depthBefore = kDepth,
                                 !.wasKnown = (p \in Known), !.wasLive = (p \in kConns)]
        /\ UNCHANGED <<kNow, kPanic>>

\* mutant of Off: the record of the peer is deleted from the known index
Off_delete(p) ==
    /\ ~kPanic
    /\ IF p \notin Known
       THEN /\ kPanic' = TRUE
            /\ UNCHANGED <<kAddrs, kConns>>
       ELSE /\ kAddrs' = [q \in Known \ {p} |-> kAddrs[q]]
            /\ kConns' = kConns \ {p}
            /\ UNCHANGED kPanic
    /\ kLast' = [NoOp EXCEPT !.op = "Off", !.a = p, !.depthBefore = kDepth,
                             !.wasKnown = (p \in Known), !.wasLive = (p \in kConns)]
    /\ UNCHANGED <<kDepth, kNow>>

\* Kademlia.Off(p)
Off(p) ==
    /\ ~kPanic
    /\ IF p \notin Known
       THEN /\ kPanic' = TRUE
            /\ UNCHANGED <<kAddrs, kConns>>
       ELSE /\ kAddrs' = [kAddrs EXCEPT ![p] = newEntry(FALSE, kNow)]
            /\ kConns' = kConns \ {p}
            /\ UNCHANGED kPanic
    /\ kLast' = [NoOp EXCEPT !.op = "Off", !.a = p, !.depthBefore = kDepth,
                             !.wasKnown = (p \in Known), !.wasLive = (p \in kConns)]
    /\ UNCHANGED <<kDepth, kNow>>

\* Kademlia.SuggestPeer()
SuggestPeer ==
    /\ ~kPanic
    /\ \E ord \in NeighbourOrders(Known, kBase), inBin \in Perms(SuggestBin),
          reach \in ReachChoices, r \in RetryDivs :
          \E res \in {SuggestPeerResult(ord, inBin, reach, r)} :
              /\ kAddrs' = res.addrs
              /\ kDepth' = res.depth
              /\ kLast' = [NoOp EXCEPT !.op = "SuggestPeer", !.a = res.a, !.o = res.o,
                                       !.flag = res.want, !.phase = res.phase,
                                       !.depthBefore = kDepth,
                                       !.rejected = {p \in Known \ kConns : ~reach[p]}]
    /\ UNCHANGED <<kConns, kNow, kPanic>>

\* the clock advances
KadTick ==
    /\ ~kPanic
    /\ kNow + TickLen <= MaxTime
    /\ kNow' = kNow + TickLen
    /\ UNCHANGED <<kAddrs, kConns, kDepth, kPanic, kLast>>

KadRegister == (\E peers \in RegisterInputs : Register(peers)) /\ UNCHANGED <<cmVars, probe, pssVars, keyVars, regVars, gc, lk, pr>>
KadOn == (\E p \in KadPeers : On(p)) /\ UNCHANGED <<cmVars, probe, pssVars, keyVars, regVars, gc, lk, pr>>
KadOff == (\E p \in KadPeers : Off(p)) /\ UNCHANGED <<cmVars, probe, pssVars, keyVars, regVars, gc, lk, pr>>
KadSuggestPeer == SuggestPeer /\ UNCHANGED <<cmVars, probe, pssVars, keyVars, regVars, gc, lk, pr>>
KadClock == KadTick /\ UNCHANGED <<cmVars, probe, pssVars, keyVars, regVars, gc, lk, pr>>

KadNext == KadRegister \/ KadOn \/ KadOff \/ KadSuggestPeer \/ KadClock

\* the table when a connecting peer presents the base address as its own:
\* the peers the calls are made with
SelfPeers == {kBase, AddrOf({3}), AddrOf({3, 4})}

SelfRegister == (\E p \in SelfPeers : Register(<<p>>)) /\ UNCHANGED <<cmVars, probe, pssVars, keyVars, regVars, gc, lk, pr>>
SelfOn == (\E p \in SelfPeers : On(p)) /\ UNCHANGED <<cmVars, probe, pssVars, keyVars, regVars, gc, lk, pr>>
SelfOff == (\E p \in SelfPeers : Off(p)) /\ UNCHANGED <<cmVars, probe, pssVars, keyVars, regVars, gc, lk, pr>>

SelfNext == SelfRegister \/ SelfOn \/ SelfOff \/ KadSuggestPeer \/ KadClock

(***************************************************************************)
(* pss messaging engine                                                    *)
(***************************************************************************)
\* cacheTTL and msgTTL of PssParams and the last reading of the clock, in
\* clock ticks
CacheTTL == 1
MsgTTL == 1
MaxClock == 1
\* how many forward calls, inbound messages from outside the modelled nodes
\* and send requests one behaviour holds
MaxCalls == 2
MaxInject == 2
MaxApi == 1
\* how many forward calls of one node run at the same time
MaxActive == 2

\* overlay addresses of the pss nodes and of the peers they are connected to
NodeA == AddrOf({1})
NodeB == AddrOf({})
NodeC == AddrOf({3})
PeerP4 == AddrOf({3, 4})

\* what a forward call runs on when no peer's read loop made it: the caller
\* of the send API, or a goroutine of its own
ApiConn == <<"api">>
GoConn == <<"go">>

Topics == {"t1", "t2"}
Handlers == {"h1", "h2"}

\* len(msg.To) in bytes; msg.To is kept as its bits
ByteLen(to) == Len(to) \div ByteBits
\* the first n bytes of an address
Prefix(addr, n) == [i \in 1..(n * ByteBits) |-> addr[i]]
\* to := make([]byte, addressLength); copy(to[:len(msg.To)], msg.To)
PadTo(to) == [i \in 1..AddrBits |-> IF i <= Len(to) THEN to[i] ELSE 0]

\* PssMsg.serialize and the digest storeMsg derives from it; the zero
\* pssDigest is what storeMsg returns when the chunk store fails
Serialize(m) == <<m.to, m.expire, m.payload>>
ZeroDigest == <<>>
storeMsg(m, storeOk) == IF storeOk THEN Serialize(m) ELSE ZeroDigest

\* Pss.isSelfPossibleRecipient: bytes.Equal(msg.To[:], local[:len(msg.To)])
isSelfPossibleRecipient(node, m) ==
    \A i \in 1..Len(m.to) : m.to[i] = node[i]

\* msgexp.Before(time.Now()) and msgexp.After(time.Now().Add(self.msgTTL))
\* of handlePssMsg
msgExpired(m, now) == m.expire < now
invalidTTL_never(m, now) == FALSE
invalidTTL(m, now) == m.expire > now + MsgTTL

\* time.Time.IsZero of a cache entry's expiresAt
IsZero(t) == t < 0

\* Pss.checkFwdCache(addr, digest) at time now
checkFwdCache(cache, addr, digest, now) ==
    \E e \in cache :
        /\ e.digest = digest
        /\ \/ e.expiresAt > now
           \/ IsZero(e.expiresAt) /\ addr = e.receivedFrom

\* mutant of addFwdCache: the entry expires at once
addFwdCache_noTTL(cache, digest, now) ==
    (cache \ {e \in cache : e.digest = digest}) \cup
        {[digest |-> digest, expiresAt |-> now, receivedFrom |-> <<>>]}

\* Pss.addFwdCache(digest) at time now
addFwdCache(cache, digest, now) ==
    LET old == {e \in cache : e.digest = digest}
        from == IF old = {} THEN <<>> ELSE (CHOOSE e \in old : TRUE).receivedFrom
    IN  (cache \ old) \cup
            {[digest |-> digest, expiresAt |-> now + CacheTTL, receivedFrom |-> from]}

\* mutant of processAsym: no envelope can be opened
processAsym_never(node, m) == FALSE

\* envelope.OpenAsymmetric(self.privateKey) and Validate succeed for the node
\* the envelope was encrypted for
processAsym(node, m) == m.payload.encFor = node

\* the callback of forward along Overlay.EachConn(to, 256, ...): the peers
\* tried, in order, each with what happened, from position i of order on
RECURSIVE forwardIter(_, _, _, _, _, _, _, _)
forwardIter(order, i, node, conns, m, cache, digest, fails) ==
    IF i > Len(order) THEN <<>>
    ELSE LET op == order[i]
             isproxbin == PO(PadTo(m.to), op) >= neighbourhoodDepth(conns, node)
             rest == forwardIter(order, i + 1, node, conns, m, cache, digest, fails)
         IN  IF checkFwdCache(cache, op, digest, pNow)
             THEN <<[peer |-> op, res |-> "skipped"]>> \o rest
             ELSE IF op \in fails
             THEN <<[peer |-> op, res |-> "failed"]>> \o rest
             ELSE IF ByteLen(m.to) < AddrLen /\ m.to = Prefix(op, ByteLen(m.to))
             THEN <<[peer |-> op, res |-> "sent"]>> \o rest
             ELSE IF isproxbin
             THEN <<[peer |-> op, res |-> "sent"]>> \o rest
             ELSE <<[peer |-> op, res |-> "sent"]>>

SentTo(tried) == {tried[i].peer : i \in {j \in 1..Len(tried) : tried[j].res = "sent"}}

\* the connections of a node on which no handlePssMsg is running
Busy(node) ==
    {calls[i].conn : i \in {j \in 1..Len(calls) :
                              calls[j].node = node /\ calls[j].phase # "done"}}
        \cup {d.conn : d \in {x \in pending : x.node = node}}

\* whether one more forward call may be made at node
MayCall(node) ==
    /\ Len(calls) < MaxCalls
    /\ Cardinality({i \in 1..Len(calls) :
                       calls[i].node = node /\ calls[i].phase # "done"}) < MaxActive

\* a forward call entering forward(msg): storeMsg and the flood guard
NewCall(node, conn, m, storeOk) ==
    LET digest == storeMsg(m, storeOk)
        blocked == checkFwdCache(fwdCache[node], <<>>, digest, pNow)
    IN  [node |-> node, conn |-> conn, msg |-> m, digest |-> digest,
         phase |-> IF blocked THEN "done" ELSE "iter", blocked |-> blocked,
         tried |-> <<>>, sent |-> 0, t0 |-> pNow]

\* a forward call started by "go func() { self.forward(pssmsg) }()" and not
\* yet run
SpawnedCall(node, m) ==
    [node |-> node, conn |-> GoConn, msg |-> m, digest |-> ZeroDigest,
     phase |-> "guard", blocked |-> FALSE, tried |-> <<>>, sent |-> 0,
     t0 |-> pNow]

\* mutant of handlePssMsg and process: every decrypted message is forwarded
\* again, whatever the length of its destination
handlePssMsg_alwaysSpawn(node, from, m, storeOk) ==
    LET rec(result, call) ==
            [node |-> node, msg |-> m, time |-> pNow,
             result |-> result, call |-> call]
        next == Len(calls) + 1
    IN  IF ~isSelfPossibleRecipient(node, m)
        THEN IF msgExpired(m, pNow)
             THEN /\ handled' = handled \cup {rec("expired", 0)}
                  /\ UNCHANGED <<calls, pending>>
             ELSE IF invalidTTL(m, pNow)
             THEN /\ handled' = handled \cup {rec("invalidTTL", 0)}
                  /\ UNCHANGED <<calls, pending>>
             ELSE /\ MayCall(node)
                  /\ calls' = Append(calls, NewCall(node, from, m, storeOk))
                  /\ handled' = handled \cup {rec("forward", next)}
                  /\ UNCHANGED pending
        ELSE IF ~processAsym(node, m)
             THEN /\ MayCall(node)
                  /\ calls' = Append(calls, NewCall(node, from, m, storeOk))
                  /\ handled' = handled \cup {rec("undecrypted", next)}
                  /\ UNCHANGED pending
             ELSE /\ MayCall(node)
                  /\ calls' = Append(calls, SpawnedCall(node, m))
                  /\ pending' = pending \cup {[node |-> node, conn |-> from, msg |-> m]}
                  /\ handled' = handled \cup {rec("processed", next)}

\* Pss.handlePssMsg(msg) at node for a message read from peer from
handlePssMsg(node, from, m, storeOk) ==
    LET rec(result, call) ==
            [node |-> node, msg |-> m, time |-> pNow,
             result |-> result, call |-> call]
        next == Len(calls) + 1
    IN  IF ~isSelfPossibleRecipient(node, m)
        THEN IF msgExpired(m, pNow)
             THEN /\ handled' = handled \cup {rec("expired", 0)}
                  /\ UNCHANGED <<calls, pending>>
             ELSE IF invalidTTL(m, pNow)
             THEN /\ handled' = handled \cup {rec("invalidTTL", 0)}
                  /\ UNCHANGED <<calls, pending>>
             ELSE /\ MayCall(node)
                  /\ calls' = Append(calls, NewCall(node, from, m, storeOk))
                  /\ handled' = handled \cup {rec("forward", next)}
                  /\ UNCHANGED pending
        ELSE IF ~processAsym(node, m)
             THEN /\ MayCall(node)
                  /\ calls' = Append(calls, NewCall(node, from, m, storeOk))
                  /\ handled' = handled \cup {rec("undecrypted", next)}
                  /\ UNCHANGED pending
             ELSE IF ByteLen(m.to) < AddrLen
             THEN /\ MayCall(node)
                  /\ calls' = Append(calls, SpawnedCall(node, m))
                  /\ pending' = pending \cup {[node |-> node, conn |-> from, msg |-> m]}
                  /\ handled' = handled \cup {rec("processed", next)}
             ELSE /\ pending' = pending \cup {[node |-> node, conn |-> from, msg |-> m]}
                  /\ handled' = handled \cup {rec("processed", 0)}
                  /\ UNCHANGED calls

\* a message arrives at node from a peer that is not a modelled node
Inject(node, from, m, storeOk) ==
    /\ pCount.inject < MaxInject
    /\ from \in pCfg.conns[node] \ DOMAIN pCfg.conns
    /\ from \notin Busy(node)
    /\ handlePssMsg(node, from, m, storeOk)
    /\ pCount' = [pCount EXCEPT !.inject = @ + 1]
    /\ UNCHANGED <<pNow, pCfg, fwdCache, inbox, dispatched>>

\* the next message a modelled peer sent to node is read and handled
Receive(node, from, storeOk) ==
    /\ Len(inbox[node][from]) > 0
    /\ from \notin Busy(node)
    /\ handlePssMsg(node, from, Head(inbox[node][from]), storeOk)
    /\ inbox' = [inbox EXCEPT ![node][from] = Tail(@)]
    /\ UNCHANGED <<pNow, pCfg, fwdCache, pCount, dispatched>>

\* the handlers process calls, "for f := range handlers", when those in errs
\* return an error: the error is logged and the loop goes on
invokeAll(handlers, errs) == handlers

\* process: the handlers of the message's topic are called, each returning
\* an error or not; errs are the handlers that return one
Dispatch(d, errs) ==
    /\ d \in pending
    /\ errs \subseteq pCfg.handlers[d.node][d.msg.payload.topic]
    /\ pending' = pending \ {d}
    /\ dispatched' = Append(dispatched,
           [node |-> d.node, msg |-> d.msg,
            invoked |-> invokeAll(pCfg.handlers[d.node][d.msg.payload.topic], errs)])
    /\ UNCHANGED <<pNow, pCfg, fwdCache, inbox, calls, handled, pCount>>

\* Pss.send(to, topic, msg, asymmetric, key) as called by SendAsym: builds
\* the envelope and forwards it; nonce stands for the random padding
Send(req, storeOk) ==
    /\ req \in pCfg.sends
    /\ pCount.api < MaxApi
    /\ MayCall(req.node)
    /\ ApiConn \notin Busy(req.node)
    /\ LET m == [to |-> req.to, expire |-> pNow + MsgTTL,
                 payload |-> [topic |-> req.topic, encFor |-> req.encFor,
                              nonce |-> pCount.api + 1]]
       IN  calls' = Append(calls, NewCall(req.node, ApiConn, m, storeOk))
    /\ pCount' = [pCount EXCEPT !.api = @ + 1]
    /\ UNCHANGED <<pNow, pCfg, fwdCache, inbox, pending, handled, dispatched>>

\* a spawned forward call runs storeMsg and the flood guard
ForwardGuard(id, storeOk) ==
    /\ calls[id].phase = "guard"
    /\ LET c == NewCall(calls[id].node, GoConn, calls[id].msg, storeOk)
       IN  calls' = [calls EXCEPT ![id] = c]
    /\ UNCHANGED <<pNow, pCfg, fwdCache, inbox, pending, handled, dispatched, pCount>>

\* the messages forward hands to the peers tried that are modelled nodes
Delivered(box, node, m, tried) ==
    [n \in DOMAIN box |->
        IF n \in SentTo(tried) THEN [box[n] EXCEPT ![node] = Append(@, m)] ELSE box[n]]

\* forward iterates the live peers nearest to the destination and sends;
\* fails are the peers whose Send returns an error
ForwardIter(id, order, fails) ==
    LET c == calls[id]
        conns == pCfg.conns[c.node]
        tried == forwardIter(order, 1, c.node, conns, c.msg, fwdCache[c.node], c.digest, fails)
        sent == Cardinality(SentTo(tried))
    IN  /\ c.phase = "iter"
        /\ order \in NeighbourOrders(conns, PadTo(c.msg.to))
        /\ fails \subseteq conns
        /\ calls' = [calls EXCEPT ![id] =
                        [c EXCEPT !.tried = tried, !.sent = sent,
                                  !.phase = IF sent = 0 THEN "done" ELSE "cache"]]
        /\ inbox' = Delivered(inbox, c.node, c.msg, tried)
        /\ UNCHANGED <<pNow, pCfg, fwdCache, pending, handled, dispatched, pCount>>

\* forward records the digest in the flood-guard cache and returns
ForwardCache(id) ==
    LET c == calls[id]
    IN  /\ c.phase = "cache"
        /\ fwdCache' = [fwdCache EXCEPT ![c.node] = addFwdCache(@, c.digest, pNow)]
        /\ calls' = [calls EXCEPT ![id] = [c EXCEPT !.phase = "done"]]
        /\ UNCHANGED <<pNow, pCfg, inbox, pending, handled, dispatched, pCount>>

\* the clock advances
PssTick ==
    /\ pNow < pCfg.lastTick
    /\ pNow' = pNow + 1
    /\ UNCHANGED <<pCfg, fwdCache, inbox, calls, pending, handled, dispatched, pCount>>

\* whether storeMsg and the transport may fail in this configuration
StoreOutcomes == IF pCfg.lossy THEN BOOLEAN ELSE {TRUE}
\* the peers whose Send fails in one forward call: none, the first tried, all
FailChoices(order) ==
    IF pCfg.lossy /\ Len(order) > 0
    THEN {{}, {order[1]}, {order[i] : i \in 1..Len(order)}}
    ELSE {{}}
PssNodes == DOMAIN pCfg.conns

PssInject ==
    /\ \E node \in PssNodes, m \in pCfg.inject, storeOk \in StoreOutcomes :
           \E from \in pCfg.conns[node] : Inject(node, from, m, storeOk)
    /\ UNCHANGED <<cmVars, kadVars, probe, keyVars, regVars, gc, lk, pr>>
PssReceive ==
    /\ \E node \in PssNodes, storeOk \in StoreOutcomes :
           \E from \in PssNodes : Receive(node, from, storeOk)
    /\ UNCHANGED <<cmVars, kadVars, probe, keyVars, regVars, gc, lk, pr>>
PssDispatch ==
    /\ \E d \in pending : \E errs \in SUBSET Handlers : Dispatch(d, errs)
    /\ UNCHANGED <<cmVars, kadVars, probe, keyVars, regVars, gc, lk, pr>>
PssSend ==
    /\ \E req \in pCfg.sends, storeOk \in StoreOutcomes : Send(req, storeOk)
    /\ UNCHANGED <<cmVars, kadVars, probe, keyVars, regVars, gc, lk, pr>>
PssForwardGuard ==
    /\ \E id \in 1..Len(calls), storeOk \in StoreOutcomes : ForwardGuard(id, storeOk)
    /\ UNCHANGED <<cmVars, kadVars, probe, keyVars, regVars, gc, lk, pr>>
PssForwardIter ==
    /\ \E id \in 1..Len(calls) :
           \E order \in NeighbourOrders(pCfg.conns[calls[id].node], PadTo(calls[id].msg.to)) :
              \E fails \in FailChoices(order) : ForwardIter(id, order, fails)
    /\ UNCHANGED <<cmVars, kadVars, probe, keyVars, regVars, gc, lk, pr>>
PssForwardCache ==
    /\ \E id \in 1..Len(calls) : ForwardCache(id)
    /\ UNCHANGED <<cmVars, kadVars, probe, keyVars, regVars, gc, lk, pr>>
PssClock == PssTick /\ UNCHANGED <<cmVars, kadVars, probe, keyVars, regVars, gc, lk, pr>>

\* one node with its peers outside the model
PssNext ==
    \/ PssInject \/ PssForwardGuard \/ PssForwardIter
    \/ PssForwardCache \/ PssDispatch \/ PssClock
\* three nodes relaying among themselves
RelayNext ==
    \/ PssSend \/ PssReceive \/ PssForwardIter \/ PssForwardCache
    \/ PssDispatch \/ PssClock

\* the destinations of the messages a node is given: its own address, the
\* address of a peer, and one-byte prefixes of both
Dests == {NodeB, NodeC, Prefix(NodeB, 1), Prefix(NodeA, 1)}
\* expiry times: one in the past once the clock moves, one beyond the TTL
\* window until the clock moves, one beyond it at every reading of the clock
ExpireVals == {0, MsgTTL + 1, MaxClock + MsgTTL + 1}
\* the sets of live peers the node is given
PeerSets == {{}, {NodeC}, {NodeA, NodeC}, {NodeC, PeerP4}}
InboundMsgs ==
    [to : Dests, expire : ExpireVals,
     payload : {[topic |-> "t1", encFor |-> NodeB, nonce |-> 0],
                [topic |-> "t1", encFor |-> NodeC, nonce |-> 0]}]
NoPssCfg == [conns |-> <<>>, handlers |-> <<>>, inject |-> {}, sends |-> {},
             lossy |-> FALSE, lastTick |-> 0]
NoPssCount == [inject |-> 0, api |-> 0]

(***************************************************************************)
(* pss symmetric keys: pool, recent-decrypt cache, garbage collection      *)
(***************************************************************************)
\* PssParams.SymKeyCacheCapacity (512 by default), how many keys the whisper
\* backend holds and how far the cache cursor runs
SymKeyCacheCapacity == 2
MaxKeys == 2
MaxCursor == 3

\* key bytes, and the address hints a binding can carry (NoHint = nil)
KeyBytes == {"ka", "kb"}
NoHint == <<>>
Hints == {NoHint, AddrOf({1})}
\* the nil *string of an unwritten cache slot
NoKeyId == 0
CacheSlots == 0..(SymKeyCacheCapacity - 1)

\* the ids of the keys in the whisper backend
KeyIds == 1..Len(wSymKeys)
\* symKeyPool as one map from <<key id, topic>> to the binding
Bindings == DOMAIN symKeyPool

\* the indices i the loops over the decrypt cache visit, newest first:
\* for i := cursor; i > cursor-cap && i > 0; i--
ScanFrom(cursor) == SetMax({1, cursor - SymKeyCacheCapacity + 1})
CacheScan(cursor) == [j \in 1..(cursor - ScanFrom(cursor) + 1) |-> cursor + 1 - j]

\* addSymmetricKeyToPool(keyid, topic, address, addtocache)
addSymmetricKeyToPool(keyid, topic, address, addtocache) ==
    /\ symKeyPool' = [b \in Bindings \cup {<<keyid, topic>>} |->
                        IF b = <<keyid, topic>>
                        THEN [address |-> address, protected |-> FALSE]
                        ELSE symKeyPool[b]]
    /\ IF addtocache
       THEN /\ symKeyDecryptCacheCursor < MaxCursor
            /\ symKeyDecryptCacheCursor' = symKeyDecryptCacheCursor + 1
            /\ symKeyDecryptCache' =
                   [symKeyDecryptCache EXCEPT
                       ![(symKeyDecryptCacheCursor + 1) % SymKeyCacheCapacity] = keyid]
       ELSE UNCHANGED <<symKeyDecryptCache, symKeyDecryptCacheCursor>>

NoKeyOp == [op |-> "none", keyid |-> NoKeyId, count |-> 0, before |-> <<>>]

\* SetSymmetricKey(key, topic, address, addtocache): AddSymKeyDirect stores
\* the key under a new id, which is then bound to the topic
SetSymmetricKey(key, topic, address, addtocache) ==
    /\ Len(wSymKeys) < MaxKeys
    /\ wSymKeys' = Append(wSymKeys, key)
    /\ addSymmetricKeyToPool(Len(wSymKeys) + 1, topic, address, addtocache)
    /\ keyLast' = [NoKeyOp EXCEPT !.op = "SetSymmetricKey", !.keyid = Len(wSymKeys) + 1]
    /\ UNCHANGED keyPanic

\* addSymmetricKeyToPool called for a key already in the backend
BindSymmetricKey(keyid, topic, address, addtocache) ==
    /\ keyid \in KeyIds
    /\ addSymmetricKeyToPool(keyid, topic, address, addtocache)
    /\ keyLast' = [NoKeyOp EXCEPT !.op = "addSymmetricKeyToPool", !.keyid = keyid]
    /\ UNCHANGED <<wSymKeys, keyPanic>>

\* a binding is marked protected (pssPeer.protected is set by the handshake
\* code, which is not part of the sources)
Protect(b) ==
    /\ b \in Bindings
    /\ ~symKeyPool[b].protected
    /\ symKeyPool' = [symKeyPool EXCEPT ![b].protected = TRUE]
    /\ keyLast' = [NoKeyOp EXCEPT !.op = "protect", !.keyid = b[1]]
    /\ UNCHANGED <<wSymKeys, symKeyDecryptCache, symKeyDecryptCacheCursor, keyPanic>>

\* mutant of cleanKeys: the protected flag is not looked at
cleanKeys_ignoreProtected(pool, cache, cursor) ==
    LET scan == CacheScan(cursor)
        match(keyid) == \E j \in 1..Len(scan) : cache[scan[j] % SymKeyCacheCapacity] = keyid
        expired == {b \in DOMAIN pool : ~match(b[1])}
    IN  [pool |-> [b \in DOMAIN pool \ expired |-> pool[b]],
         count |-> Cardinality(expired),
         panic |-> FALSE]

\* Pss.cleanKeys(): the pool after it, the count it returns, and whether it
\* dereferenced an unwritten cache slot
cleanKeys(pool, cache, cursor) ==
    LET scan == CacheScan(cursor)
        match(keyid) == \E j \in 1..Len(scan) : cache[scan[j] % SymKeyCacheCapacity] = keyid
        checked == {b \in DOMAIN pool : ~pool[b].protected}
        expired == {b \in checked : ~match(b[1])}
    IN  [pool |-> [b \in DOMAIN pool \ expired |-> pool[b]],
         count |-> Cardinality(expired),
         panic |-> /\ checked # {}
                   /\ \E j \in 1..Len(scan) : cache[scan[j] % SymKeyCacheCapacity] = NoKeyId]

CleanKeys ==
    \E res \in {cleanKeys(symKeyPool, symKeyDecryptCache, symKeyDecryptCacheCursor)} :
        /\ symKeyPool' = res.pool
        /\ keyPanic' = (keyPanic \/ res.panic)
        /\ keyLast' = [op |-> "cleanKeys", keyid |-> NoKeyId, count |-> res.count,
                       before |-> symKeyPool]
        /\ UNCHANGED <<wSymKeys, symKeyDecryptCache, symKeyDecryptCacheCursor>>

\* the first position of the scan whose key opens the envelope, 0 if none:
\* GetSymKey finds every cached id, OpenSymmetric succeeds with the key the
\* envelope was encrypted with
RECURSIVE firstOpening(_, _, _, _)
firstOpening(scan, j, cache, env) ==
    IF j > Len(scan) THEN 0
    ELSE LET id == cache[scan[j] % SymKeyCacheCapacity]
         IN  IF id # NoKeyId /\ id \in KeyIds /\ wSymKeys[id] = env.key THEN j
             ELSE firstOpening(scan, j + 1, cache, env)

\* Pss.processSym(envelope)
ProcessSym(env) ==
    LET scan == CacheScan(symKeyDecryptCacheCursor)
        j == firstOpening(scan, 1, symKeyDecryptCache, env)
        id == symKeyDecryptCache[scan[j] % SymKeyCacheCapacity]
        nilSlot == \E x \in 1..(IF j = 0 THEN Len(scan) ELSE j) :
                       symKeyDecryptCache[scan[x] % SymKeyCacheCapacity] = NoKeyId
    IN  IF nilSlot
        THEN /\ keyPanic' = TRUE
             /\ keyLast' = [NoKeyOp EXCEPT !.op = "processSym:nil"]
             /\ UNCHANGED <<wSymKeys, symKeyPool, symKeyDecryptCache, symKeyDecryptCacheCursor>>
        ELSE IF j = 0
        THEN /\ keyLast' = [NoKeyOp EXCEPT !.op = "processSym:undecrypted"]
             /\ UNCHANGED <<wSymKeys, symKeyPool, symKeyDecryptCache,
                            symKeyDecryptCacheCursor, keyPanic>>
        ELSE IF ~env.valid
        THEN /\ keyLast' = [NoKeyOp EXCEPT !.op = "processSym:invalid", !.keyid = id]
             /\ UNCHANGED <<wSymKeys, symKeyPool, symKeyDecryptCache,
                            symKeyDecryptCacheCursor, keyPanic>>
        ELSE IF <<id, env.topic>> \notin Bindings
        THEN /\ keyPanic' = TRUE
             /\ keyLast' = [NoKeyOp EXCEPT !.op = "processSym:nobinding", !.keyid = id]
             /\ UNCHANGED <<wSymKeys, symKeyPool, symKeyDecryptCache, symKeyDecryptCacheCursor>>
        ELSE /\ symKeyDecryptCacheCursor < MaxCursor
             /\ symKeyDecryptCacheCursor' = symKeyDecryptCacheCursor + 1
             /\ symKeyDecryptCache' =
                    [symKeyDecryptCache EXCEPT
                        ![(symKeyDecryptCacheCursor + 1) % SymKeyCacheCapacity] = id]
             /\ keyLast' = [NoKeyOp EXCEPT !.op = "processSym", !.keyid = id]
             /\ UNCHANGED <<wSymKeys, symKeyPool, keyPanic>>

Envelopes == [key : KeyBytes, topic : Topics, valid : BOOLEAN]

KeysSet ==
    /\ ~keyPanic
    /\ \E key \in KeyBytes, topic \in Topics, address \in Hints, addtocache \in BOOLEAN :
           SetSymmetricKey(key, topic, address, addtocache)
    /\ UNCHANGED <<cmVars, kadVars, probe, pssVars, regVars, gc, lk, pr>>
KeysBind ==
    /\ ~keyPanic
    /\ \E keyid \in KeyIds, topic \in Topics, address \in Hints, addtocache \in BOOLEAN :
           BindSymmetricKey(keyid, topic, address, addtocache)
    /\ UNCHANGED <<cmVars, kadVars, probe, pssVars, regVars, gc, lk, pr>>
KeysProtect ==
    /\ ~keyPanic
    /\ \E b \in Bindings : Protect(b)
    /\ UNCHANGED <<cmVars, kadVars, probe, pssVars, regVars, gc, lk, pr>>
KeysClean == ~keyPanic /\ CleanKeys /\ UNCHANGED <<cmVars, kadVars, probe, pssVars, regVars, gc, lk, pr>>
KeysProcess ==
    /\ ~keyPanic
    /\ \E env \in Envelopes : ProcessSym(env)
    /\ UNCHANGED <<cmVars, kadVars, probe, pssVars, regVars, gc, lk, pr>>

KeysNext == KeysSet \/ KeysBind \/ KeysProtect \/ KeysClean \/ KeysProcess

(***************************************************************************)
(* pss handler registry and the handler loop of process                    *)
(***************************************************************************)
\* the number of Register calls made in a run
MaxRegs == 3

\* self.handlers[topic] == nil
NoMap == 0
\* handler keys (&handler, one per Register call) and maps, in order of making
HandlerKeys == 1..MaxRegs
NoLoop == [state |-> "idle", topic |-> "t1", map |-> NoMap, atStart |-> {},
           visited |-> {}, invoked |-> <<>>, failed |-> {}]

\* a write to map m made while the handler loop ranges over it without the
\* lock: the loop goes on, or the runtime ends the program (concurrent map
\* iteration and map write)
RacingWrite(m) == hLoop.state = "running" /\ hLoop.map = m
LoopAfterWrite(m) ==
    IF RacingWrite(m) THEN {hLoop, [hLoop EXCEPT !.state = "crashed"]} ELSE {hLoop}

\* Pss.Register(topic, handler): the key is the address of the call's own
\* handler variable
PssRegister(topic) ==
    LET key == Len(hRegs) + 1
        m == hTopics[topic]
        fresh == Len(hMaps) + 1
    IN  /\ hLoop.state # "crashed"
        /\ Len(hRegs) < MaxRegs
        /\ hRegs' = Append(hRegs, [topic |-> topic, called |-> FALSE])
        /\ IF m = NoMap
           THEN /\ hMaps' = Append(hMaps, {key})
                /\ hTopics' = [hTopics EXCEPT ![topic] = fresh]
                /\ UNCHANGED hLoop
           ELSE /\ hMaps' = [hMaps EXCEPT ![m] = hMaps[m] \cup {key}]
                /\ hLoop' \in LoopAfterWrite(m)
                /\ UNCHANGED hTopics

\* mutant of deregister: the topic entry is never deleted
deregister_keepTopic(key) ==
    LET topic == hRegs[key].topic
        m == hTopics[topic]
    IN  /\ hLoop.state # "crashed"
        /\ ~hRegs[key].called
        /\ hRegs' = [hRegs EXCEPT ![key].called = TRUE]
        /\ hMaps' = [hMaps EXCEPT ![m] = hMaps[m] \ {key}]
        /\ UNCHANGED <<hTopics, hLoop>>

\* Pss.deregister(topic, h), called through the closure Register returned
deregister(key) ==
    LET topic == hRegs[key].topic
        m == hTopics[topic]
    IN  /\ hLoop.state # "crashed"
        /\ ~hRegs[key].called
        /\ hRegs' = [hRegs EXCEPT ![key].called = TRUE]
        /\ IF m = NoMap
           THEN UNCHANGED <<hTopics, hMaps, hLoop>>
           ELSE IF Cardinality(hMaps[m]) = 1
           THEN /\ hTopics' = [hTopics EXCEPT ![topic] = NoMap]
                /\ UNCHANGED <<hMaps, hLoop>>
           ELSE /\ hMaps' = [hMaps EXCEPT ![m] = hMaps[m] \ {key}]
                /\ hLoop' \in LoopAfterWrite(m)
                /\ UNCHANGED hTopics

\* the closure Register returned is called once more: Pss.deregister(topic, h)
\* for a handler that is already gone
deregisterAgain(key) ==
    LET topic == hRegs[key].topic
        m == hTopics[topic]
    IN  /\ hLoop.state # "crashed"
        /\ hRegs[key].called
        /\ UNCHANGED hRegs
        /\ IF m = NoMap
           THEN UNCHANGED <<hTopics, hMaps, hLoop>>
           ELSE IF Cardinality(hMaps[m]) = 1
           THEN /\ hTopics' = [hTopics EXCEPT ![topic] = NoMap]
                /\ UNCHANGED <<hMaps, hLoop>>
           ELSE /\ hMaps' = [hMaps EXCEPT ![m] = hMaps[m] \ {key}]
                /\ hLoop' \in LoopAfterWrite(m)
                /\ UNCHANGED hTopics

\* Pss.getHandlers(topic): the map itself, not a copy
getHandlers(topic) == hTopics[topic]

\* the entries of map m
MapEntries(m) == IF m = NoMap THEN {} ELSE hMaps[m]

\* Pss.process after a successful decryption: handlers := getHandlers(topic)
ProcessStart(topic) ==
    /\ hLoop.state \in {"idle", "returned"}
    /\ hLoop' = [NoLoop EXCEPT !.state = "running", !.topic = topic,
                               !.map = getHandlers(topic),
                               !.atStart = MapEntries(getHandlers(topic))]
    /\ UNCHANGED <<hTopics, hMaps, hRegs>>

\* one round of for f := range handlers: an entry not yet produced is
\* invoked, and its error, if any, is logged
InvokeHandler(key, err) ==
    /\ hLoop.state = "running"
    /\ key \in MapEntries(hLoop.map) \ hLoop.visited
    /\ hLoop' = [hLoop EXCEPT !.visited = @ \cup {key},
                              !.invoked = Append(@, key),
                              !.failed = IF err THEN @ \cup {key} ELSE @]
    /\ UNCHANGED <<hTopics, hMaps, hRegs>>

\* the range ends and process returns true: every entry still in the map
\* was produced, except that entries made during the loop may be left out
ProcessReturn ==
    /\ hLoop.state = "running"
    /\ (MapEntries(hLoop.map) \ hLoop.visited) \cap hLoop.atStart = {}
    /\ hLoop' = [hLoop EXCEPT !.state = "returned"]
    /\ UNCHANGED <<hTopics, hMaps, hRegs>>

RegRegister == (\E t \in Topics : PssRegister(t)) /\ UNCHANGED <<cmVars, kadVars, probe, pssVars, keyVars, gc, lk, pr>>
RegDeregister == (\E k \in DOMAIN hRegs : deregister(k)) /\ UNCHANGED <<cmVars, kadVars, probe, pssVars, keyVars, gc, lk, pr>>
RegProcess == (\E t \in Topics : ProcessStart(t)) /\ UNCHANGED <<cmVars, kadVars, probe, pssVars, keyVars, gc, lk, pr>>
RegInvoke == (\E k \in HandlerKeys, err \in BOOLEAN : InvokeHandler(k, err)) /\ UNCHANGED <<cmVars, kadVars, probe, pssVars, keyVars, gc, lk, pr>>
RegReturn == ProcessReturn /\ UNCHANGED <<cmVars, kadVars, probe, pssVars, keyVars, gc, lk, pr>>

RegNext == RegRegister \/ RegDeregister \/ RegProcess \/ RegInvoke \/ RegReturn
RegAgain == (\E k \in DOMAIN hRegs : deregisterAgain(k)) /\ UNCHANGED <<cmVars, kadVars, probe, pssVars, keyVars, gc, lk, pr>>
\* the registry when closures may be called more than once
UnsubNext == RegRegister \/ RegDeregister \/ RegAgain \/ RegProcess \/ RegInvoke \/ RegReturn

(***************************************************************************)
(* pss send requests: SendSym, SendAsym, send                              *)
(***************************************************************************)
\* the step of send that fails: none, the key check, rand.Read of the
\* padding, whisper.NewSentMessage, woutmsg.Wrap
SendFailures == {"none", "zerokey", "padding", "encapsulation", "encryption"}

\* a send request: keyOk the key id resolves to a key, bound the pool has an
\* entry for key id and topic, hint the entry has an address, fail the step
\* of send that fails
SendRequests == [keyOk : BOOLEAN, bound : BOOLEAN, hint : BOOLEAN, fail : SendFailures]
NoSend == [op |-> "none", err |-> FALSE, forwarded |-> FALSE]

\* Pss.send: the error returned and whether forward was called (forward
\* itself always returns nil)
send(fail) == [err |-> fail # "none", forwarded |-> fail = "none"]

\* Pss.SendSym: err the error returned is non-nil
SendSym(req) ==
    IF ~req.keyOk \/ ~req.bound \/ ~req.hint
    THEN [op |-> "SendSym", err |-> TRUE, forwarded |-> FALSE]
    ELSE [op |-> "SendSym", err |-> send(req.fail).err,
          forwarded |-> send(req.fail).forwarded]

\* Pss.SendAsym: the value of send is dropped
SendAsym(req) ==
    IF ~req.keyOk \/ ~req.bound \/ ~req.hint
    THEN [op |-> "SendAsym", err |-> TRUE, forwarded |-> FALSE]
    ELSE [op |-> "SendAsym", err |-> FALSE, forwarded |-> send(req.fail).forwarded]

SendSymCall ==
    /\ probe.ret = NoSend
    /\ probe' = [probe EXCEPT !.ret = SendSym(probe.req)]
    /\ UNCHANGED <<cmVars, kadVars, pssVars, keyVars, regVars, gc, lk, pr>>
SendAsymCall ==
    /\ probe.ret = NoSend
    /\ probe.req.fail # "zerokey"
    /\ probe' = [probe EXCEPT !.ret = SendAsym(probe.req)]
    /\ UNCHANGED <<cmVars, kadVars, pssVars, keyVars, regVars, gc, lk, pr>>

SendNext == SendSymCall \/ SendAsymCall

(***************************************************************************)
(* pss key garbage collection task (Pss.Start, Pss.Stop)                   *)
(***************************************************************************)
\* how many ticks of the clean interval a run sees
MaxGcTicks == 3

\* gc: tick the ticks so far, chan a tick waits in tickC (a channel of one),
\* loop the position of the goroutine of Start, quit quitC is closed, runs the
\* calls of cleanKeys it made, afterStop one of them began after Stop
NoGc == [tick |-> 0, chan |-> FALSE, loop |-> "none", quit |-> FALSE,
         runs |-> 0, afterStop |-> FALSE]

\* Pss.Start: the goroutine is started and waits in its select
PssStart ==
    /\ gc.loop = "none"
    /\ gc' = [gc EXCEPT !.loop = "select"]
    /\ UNCHANGED keyVars

\* the ticker of time.Tick fires; a tick is dropped when one waits already
GcTick ==
    /\ gc.loop # "none"
    /\ gc.tick < MaxGcTicks
    /\ gc.loop = "select" => ~gc.chan
    /\ gc' = [gc EXCEPT !.tick = @ + 1, !.chan = TRUE]
    /\ UNCHANGED keyVars

\* case <-tickC: self.cleanKeys(); the goroutine then ends. select takes
\* this case also when quitC is closed as well
GcSelectTick ==
    /\ gc.loop = "select"
    /\ gc.chan
    /\ CleanKeys
    /\ gc' = [gc EXCEPT !.chan = FALSE, !.loop = "exited", !.runs = @ + 1,
                        !.afterStop = gc.quit]

\* case <-self.quitC: the goroutine ends
GcSelectQuit ==
    /\ gc.loop = "select"
    /\ gc.quit
    /\ gc' = [gc EXCEPT !.loop = "exited"]
    /\ UNCHANGED keyVars

\* Pss.Stop: close(self.quitC)
PssStop ==
    /\ gc.loop # "none"
    /\ ~gc.quit
    /\ gc' = [gc EXCEPT !.quit = TRUE]
    /\ UNCHANGED keyVars

GcStart == PssStart /\ UNCHANGED <<cmVars, kadVars, probe, pssVars, regVars, lk, pr>>
GcTicker == GcTick /\ UNCHANGED <<cmVars, kadVars, probe, pssVars, regVars, lk, pr>>
GcClean == GcSelectTick /\ UNCHANGED <<cmVars, kadVars, probe, pssVars, regVars, lk, pr>>
GcQuit == GcSelectQuit /\ UNCHANGED <<cmVars, kadVars, probe, pssVars, regVars, lk, pr>>
GcStop == PssStop /\ UNCHANGED <<cmVars, kadVars, probe, pssVars, regVars, lk, pr>>

GcNext == GcStart \/ GcTicker \/ GcClean \/ GcQuit \/ GcStop

\* the pools the task finds: bindings of one key to the topics, protected or
\* not, none of them in the decrypt cache
GcPools ==
    UNION {[D -> [address : {NoHint}, protected : BOOLEAN]] :
               D \in SUBSET {<<1, t>> : t \in Topics}}

(***************************************************************************)
(* Lock discipline of the Kademlia table and of Pss                        *)
(***************************************************************************)
Threads == {1, 2}
MaxLockOps == 3

\* the statements of an operation that matter to the lock: taking and
\* releasing it, and reading or writing a piece of shared state
Acq(m) == [k |-> "acquire", mode |-> m, field |-> "lock"]
Rel(m) == [k |-> "release", mode |-> m, field |-> "lock"]
Rd(f) == [k |-> "read", mode |-> "-", field |-> f]
Wr(f) == [k |-> "write", mode |-> "-", field |-> f]

KadOps == {"Register", "On", "Off", "SuggestPeer", "EachConn", "EachAddr"}
\* the operations of the Kademlia table over k.lock, a sync.RWMutex
KadProgram(op) ==
    CASE op = "Register" ->
             <<Acq("W"), Rd("addrs"), Wr("addrs"), Rel("W")>>
      [] op = "On" ->
             <<Acq("W"), Rd("conns"), Wr("conns"), Wr("addrs"), Rd("depth"),
               Wr("depth"), Rel("W")>>
      [] op = "Off" ->
             <<Acq("W"), Rd("addrs"), Wr("addrs"), Wr("conns"), Rel("W")>>
      [] op = "SuggestPeer" ->
             <<Acq("R"), Rd("conns"), Rd("addrs"), Rd("retries"), Wr("retries"),
               Rd("depth"), Wr("depth"), Rel("R")>>
      [] op = "EachConn" -> <<Acq("R"), Rd("conns"), Rel("R")>>
      [] op = "EachAddr" -> <<Acq("R"), Rd("addrs"), Rel("R")>>

PssOps == {"Run", "Register", "deregister", "process", "processSym", "processAsym",
           "SetPeerPublicKey", "addSymmetricKeyToPool", "cleanKeys", "SendSym",
           "SendAsym", "forward"}
\* the operations of Pss over self.lock, a sync.Mutex
PssProgram(op) ==
    CASE op = "Run" -> <<Wr("fwdPool")>>
      [] op = "Register" ->
             <<Acq("W"), Rd("handlers"), Wr("handlers"), Rel("W")>>
      [] op = "deregister" ->
             <<Acq("W"), Rd("handlers"), Wr("handlers"), Rel("W")>>
      [] op = "process" ->
             <<Acq("W"), Rd("handlers"), Rel("W"), Rd("handlers")>>
      [] op = "processSym" ->
             <<Rd("symKeyDecryptCacheCursor"), Rd("symKeyDecryptCache"),
               Rd("symKeyPool"), Wr("symKeyDecryptCacheCursor"),
               Wr("symKeyDecryptCache")>>
      [] op = "processAsym" -> <<Rd("pubKeyPool")>>
      [] op = "SetPeerPublicKey" ->
             <<Acq("W"), Rd("pubKeyPool"), Wr("pubKeyPool"), Rel("W")>>
      [] op = "addSymmetricKeyToPool" ->
             <<Acq("W"), Rd("symKeyPool"), Wr("symKeyPool"),
               Wr("symKeyDecryptCacheCursor"), Wr("symKeyDecryptCache"), Rel("W")>>
      [] op = "cleanKeys" ->
             <<Rd("symKeyPool"), Rd("symKeyDecryptCacheCursor"),
               Rd("symKeyDecryptCache"), Wr("symKeyPool")>>
      [] op = "SendSym" -> <<Rd("symKeyPool")>>
      [] op = "SendAsym" -> <<Rd("pubKeyPool")>>
      [] op = "forward" ->
             <<Acq("W"), Rd("fwdCache"), Rel("W"), Rd("fwdPool"),
               Acq("W"), Rd("fwdCache"), Rel("W"),
               Acq("W"), Rd("fwdCache"), Wr("fwdCache"), Rel("W")>>

\* lk: comp the component the goroutines call into, op and pc each
\* goroutine's operation and the statement it is at, holds the lock mode it
\* holds, retries the retry counter of one peer entry, seen the value each
\* goroutine read of it, granted the calls of callable that returned the
\* peer, started the operations called so far
NoLk == [comp |-> "none", op |-> [t \in Threads |-> "idle"],
         pc |-> [t \in Threads |-> 0], holds |-> [t \in Threads |-> "-"],
         retries |-> 0, seen |-> [t \in Threads |-> 0], granted |-> 0,
         started |-> 0]

Program(comp, op) == IF comp = "kad" THEN KadProgram(op) ELSE PssProgram(op)
OpsOf(comp) == IF comp = "kad" THEN KadOps ELSE PssOps
\* the statement goroutine t is at
Stmt(t) == Program(lk.comp, lk.op[t])[lk.pc[t]]
Running(t) == lk.op[t] # "idle"

\* a goroutine calls an operation
LockCall(t, op) ==
    /\ ~Running(t)
    /\ lk.started < MaxLockOps
    /\ op \in OpsOf(lk.comp)
    /\ lk' = [lk EXCEPT !.op[t] = op, !.pc[t] = 1, !.started = @ + 1]

\* Lock and RLock: Lock waits for every holder, RLock for the writer
LockAcquire(t) ==
    /\ Running(t)
    /\ Stmt(t).k = "acquire"
    /\ \A u \in Threads :
           IF Stmt(t).mode = "W" THEN lk.holds[u] = "-" ELSE lk.holds[u] # "W"
    /\ lk' = [lk EXCEPT !.holds[t] = Stmt(t).mode, !.pc[t] = @ + 1]

\* a read or a write of shared state; e.retries++ of callable is a read and
\* a write of the counter
LockAccess(t) ==
    /\ Running(t)
    /\ Stmt(t).k \in {"read", "write"}
    /\ lk' = IF Stmt(t).field = "retries" /\ Stmt(t).k = "read"
             THEN [lk EXCEPT !.seen[t] = lk.retries, !.pc[t] = @ + 1]
             ELSE IF Stmt(t).field = "retries"
             THEN [lk EXCEPT !.retries = lk.seen[t] + 1, !.granted = @ + 1,
                             !.pc[t] = @ + 1]
             ELSE [lk EXCEPT !.pc[t] = @ + 1]

\* Unlock and RUnlock
LockRelease(t) ==
    /\ Running(t)
    /\ Stmt(t).k = "release"
    /\ lk' = [lk EXCEPT !.holds[t] = "-", !.pc[t] = @ + 1]

\* the operation returns
LockReturn(t) ==
    /\ Running(t)
    /\ lk.pc[t] > Len(Program(lk.comp, lk.op[t]))
    /\ lk' = [lk EXCEPT !.op[t] = "idle", !.pc[t] = 0]

AtStmt(t) == Running(t) /\ lk.pc[t] <= Len(Program(lk.comp, lk.op[t]))
LkRest == <<cmVars, kadVars, probe, pssVars, keyVars, regVars, gc, pr>>
LkCall ==
    /\ \E t \in Threads : \E op \in KadOps \cup PssOps : LockCall(t, op)
    /\ UNCHANGED LkRest
LkAcquire == (\E t \in Threads : AtStmt(t) /\ LockAcquire(t)) /\ UNCHANGED LkRest
LkAccess == (\E t \in Threads : AtStmt(t) /\ LockAccess(t)) /\ UNCHANGED LkRest
LkRelease == (\E t \in Threads : AtStmt(t) /\ LockRelease(t)) /\ UNCHANGED LkRest
LkReturn == (\E t \in Threads : LockReturn(t)) /\ UNCHANGED LkRest
LkNext == LkCall \/ LkAcquire \/ LkAccess \/ LkRelease \/ LkReturn

(***************************************************************************)
(* neighbourhoodDepth on arbitrary live sets                               *)
(***************************************************************************)
\* the addresses live sets are drawn from: proximity orders 0,0,0,1,1,2,2,3
ProbePeers == {AddrOf({1}), AddrOf({1, 2}), AddrOf({1, 3}), AddrOf({2}),
               AddrOf({2, 3}), AddrOf({3}), AddrOf({3, 4}), AddrOf({4})}

NoProbe == [live |-> {}, depth |-> -1]

ProbeDepth ==
    /\ probe.depth = -1
    /\ probe' = [probe EXCEPT !.depth = neighbourhoodDepth(probe.live, kBase)]
    /\ UNCHANGED <<cmVars, kadVars, pssVars, keyVars, regVars, gc, lk, pr>>

ProbeNext == ProbeDepth

(***************************************************************************)
(* handlePssMsg on destinations of any length                              *)
(***************************************************************************)
\* s[:n] of a slice of capacity c is a run-time panic when n > c
SliceOk(c, n) == n <= c
\* destinations of one byte, of a full address, and one byte longer
LongDests == {Prefix(NodeB, 1), NodeB, NodeC, NodeB \o <<0, 0>>, NodeC \o <<0, 0>>}
\* localCap the capacity of the slice BaseAddr() returns, tail whether the
\* bytes of its backing array past the address equal the rest of To,
\* decrypts whether process opens the envelope
InboundRequests ==
    [to : LongDests, expire : ExpireVals, now : 0..MaxClock,
     localCap : {AddrLen, AddrLen + 1}, tail : BOOLEAN, decrypts : BOOLEAN]
NoInbound == "none"

\* isSelfPossibleRecipient: bytes.Equal(msg.To[:], local[:len(msg.To)])
matchAny(local, req) ==
    IF ~SliceOk(req.localCap, ByteLen(req.to)) THEN "panic"
    ELSE IF /\ \A i \in 1..Len(req.to) : i <= AddrBits => req.to[i] = local[i]
            /\ ByteLen(req.to) > AddrLen => req.tail
    THEN "match"
    ELSE "nomatch"

\* the first statements of forward: to := make([]byte, addressLength);
\* copy(to[:len(msg.To)], msg.To)
forwardAny(req) ==
    IF SliceOk(AddrLen, ByteLen(req.to)) THEN "forward" ELSE "panic"

\* handlePssMsg(msg) at node local: what becomes of the message
handleAny(local, req) ==
    LET m == [to |-> req.to, expire |-> req.expire]
    IN  IF matchAny(local, req) = "panic" THEN "panic"
        ELSE IF matchAny(local, req) = "nomatch"
        THEN IF msgExpired(m, req.now) THEN "expired"
             ELSE IF invalidTTL(m, req.now) THEN "invalidTTL"
             ELSE forwardAny(req)
        ELSE IF ~req.decrypts THEN forwardAny(req)
        ELSE "processed"

HandleInbound ==
    /\ probe.ret = NoInbound
    /\ probe' = [probe EXCEPT !.ret = handleAny(NodeB, probe.req)]
    /\ UNCHANGED <<cmVars, kadVars, pssVars, keyVars, regVars, gc, lk, pr>>
InboundNext == HandleInbound

(***************************************************************************)
(* The pruning task of Kademlia.Prune                                      *)
(***************************************************************************)
MaxPruneTicks == 2
\* the peers that connect: four of proximity order 0 and four of order 1,
\* so that two bins can hold more than MaxBinSize peers
PrunePeers == {AddrOf({1}), AddrOf({1, 2}), AddrOf({1, 3}), AddrOf({1, 4}),
               AddrOf({2}), AddrOf({2, 3}), AddrOf({2, 4}), AddrOf({2, 3, 4})}

\* pr: live the live peers (k.conns), chan the ticks waiting in c, sent the
\* ticks sent so far, loop the position of the task ("none" before Prune is
\* called, "range" waiting at "for range c", "bins" inside EachBin), snap
\* the conns the task read for this tick, bins the proximity orders EachBin
\* has still to visit, drops the calls of Drop made for this tick, each with
\* the bin it was made in, done the ticks processed
NoPrune == [live |-> {}, chan |-> 0, sent |-> 0, loop |-> "none", snap |-> {},
            bins |-> <<>>, drops |-> <<>>, done |-> 0]

\* mutant of pruneBin: the bin is emptied
RECURSIVE pruneBin_all(_, _, _, _)
pruneBin_all(order, i, extra, n) ==
    IF i > Len(order) THEN <<>>
    ELSE <<order[i]>> \o pruneBin_all(order, i + 1, extra, n + 1)

\* the callback Prune gives to the iterator f of a bin, along the order in
\* which f visits the peers of the bin: Drop, n++, return n < extra
RECURSIVE pruneBin(_, _, _, _)
pruneBin(order, i, extra, n) ==
    IF i > Len(order) THEN <<>>
    ELSE <<order[i]>> \o (IF n + 1 < extra
                          THEN pruneBin(order, i + 1, extra, n + 1)
                          ELSE <<>>)

\* Prune(c): the task is started
PruneStart ==
    /\ pr.loop = "none"
    /\ pr' = [pr EXCEPT !.loop = "range"]

\* a tick is sent on c; the sender waits while a tick is in the channel
PruneTick ==
    /\ pr.loop # "none"
    /\ pr.sent < MaxPruneTicks
    /\ pr.chan = 0
    /\ pr' = [pr EXCEPT !.chan = 1, !.sent = @ + 1]

\* for range c takes a tick; conns := k.conns under the read lock
PruneTake ==
    /\ pr.loop = "range"
    /\ pr.chan > 0
    /\ pr' = [pr EXCEPT !.chan = @ - 1, !.loop = "bins", !.snap = pr.live,
                        !.drops = <<>>,
                        !.bins = SortedSeq({PO(kBase, p) : p \in pr.live})]

\* the callback of conns.EachBin(k.base, pof, 0, ...) for the next bin
PruneBin ==
    /\ pr.loop = "bins"
    /\ Len(pr.bins) > 0
    /\ LET po == Head(pr.bins)
           bin == Bin(pr.snap, kBase, po)
           size == Cardinality(bin)
           extra == size - MinBinSize
       IN  \E order \in Perms(bin) :
               pr' = [pr EXCEPT
                         !.bins = Tail(@),
                         !.drops = IF size > MaxBinSize
                                   THEN @ \o [j \in 1..Len(pruneBin(order, 1, extra, 0)) |->
                                                 [po |-> po, peer |-> pruneBin(order, 1, extra, 0)[j]]]
                                   ELSE @]

\* EachBin has visited every bin: the task is back at "for range c"
PruneEnd ==
    /\ pr.loop = "bins"
    /\ Len(pr.bins) = 0
    /\ pr' = [pr EXCEPT !.loop = "range", !.done = @ + 1]

\* a peer Drop was called for disconnects: Off removes it from k.conns
PruneOff ==
    /\ \E j \in 1..Len(pr.drops) :
           /\ pr.drops[j].peer \in pr.live
           /\ pr' = [pr EXCEPT !.live = @ \ {pr.drops[j].peer}]

PrRest == <<cmVars, kadVars, probe, pssVars, keyVars, regVars, gc, lk>>
PrStart == PruneStart /\ UNCHANGED PrRest
PrTick == PruneTick /\ UNCHANGED PrRest
PrTake == PruneTake /\ UNCHANGED PrRest
PrBin == PruneBin /\ UNCHANGED PrRest
PrEnd == PruneEnd /\ UNCHANGED PrRest
PrOff == PruneOff /\ UNCHANGED PrRest
PruneNext == PrStart \/ PrTick \/ PrTake \/ PrBin \/ PrEnd \/ PrOff

(***************************************************************************)
(* The iterators EachConn and EachAddr                                     *)
(***************************************************************************)
MaxIterPeers == 4
\* the reference addresses: none (the base address is used) and two peers
NilBase == <<>>
IterRefs == {NilBase, AddrOf({1}), AddrOf({3})}
IterBounds == {0, 2, AddrBits}
\* the invocation at which the callback returns false; MaxIterPeers + 1 is
\* a callback that always returns true
IterStops == {1, 2, MaxIterPeers + 1}
IterRequests ==
    {r \in [known : {S \in SUBSET ProbePeers : Cardinality(S) <= MaxIterPeers},
            live : SUBSET ProbePeers, base : IterRefs, o : IterBounds,
            stop : IterStops] : r.live \subseteq r.known}
NoIter == <<[peer |-> NoPeer, po |-> -1, isproxbin |-> FALSE]>>

\* mutant of eachNeighbour: the bound on the proximity order is not applied
RECURSIVE eachNeighbour_noBound(_, _, _, _, _, _, _)
eachNeighbour_noBound(order, i, base, o, depth, stop, n) ==
    IF i > Len(order) THEN <<>>
    ELSE <<[peer |-> order[i], po |-> PO(base, order[i]),
            isproxbin |-> PO(base, order[i]) >= depth]>>
         \o (IF n + 1 = stop THEN <<>>
             ELSE eachNeighbour_noBound(order, i + 1, base, o, depth, stop, n + 1))

\* the callback eachConn and eachAddr give to EachNeighbour(base, pof, ...),
\* along the order of the traversal from position i on: the invocations of
\* f made, f returning false at its invocation number stop
RECURSIVE eachNeighbour(_, _, _, _, _, _, _)
eachNeighbour(order, i, base, o, depth, stop, n) ==
    IF i > Len(order) THEN <<>>
    ELSE LET po == PO(base, order[i])
         IN  IF po > o
             THEN eachNeighbour(order, i + 1, base, o, depth, stop, n)
             ELSE <<[peer |-> order[i], po |-> po, isproxbin |-> po >= depth]>>
                  \o (IF n + 1 = stop THEN <<>>
                      ELSE eachNeighbour(order, i + 1, base, o, depth, stop, n + 1))

\* if len(base) == 0 { base = k.base }
BaseOr(base) == IF Len(base) = 0 THEN kBase ELSE base

\* Kademlia.eachConn(base, o, f) over the live peers
eachConn(order, base, o, live, stop) ==
    eachNeighbour(order, 1, BaseOr(base), o, neighbourhoodDepth(live, kBase), stop, 0)
\* Kademlia.eachAddr(base, o, f) over the known peers
eachAddr(order, base, o, live, stop) ==
    eachNeighbour(order, 1, BaseOr(base), o, neighbourhoodDepth(live, kBase), stop, 0)

EachConn ==
    /\ probe.ret = NoIter
    /\ \E order \in NeighbourOrders(probe.req.live, BaseOr(probe.req.base)) :
           probe' = [probe EXCEPT
                        !.op = "EachConn",
                        !.ret = eachConn(order, probe.req.base, probe.req.o,
                                         probe.req.live, probe.req.stop)]
    /\ UNCHANGED <<cmVars, kadVars, pssVars, keyVars, regVars, gc, lk, pr>>
EachAddr ==
    /\ probe.ret = NoIter
    /\ \E order \in NeighbourOrders(probe.req.known, BaseOr(probe.req.base)) :
           probe' = [probe EXCEPT
                        !.op = "EachAddr",
                        !.ret = eachAddr(order, probe.req.base, probe.req.o,
                                         probe.req.live, probe.req.stop)]
    /\ UNCHANGED <<cmVars, kadVars, pssVars, keyVars, regVars, gc, lk, pr>>
IterNext == EachConn \/ EachAddr

(***************************************************************************)
(* Specifications                                                          *)
(***************************************************************************)
\* the connection manager serves requests; no table is running
InitCM ==
    /\ cmBuild \in Builds
    /\ clients = [ip \in ClientIPs |-> NoNode]
    /\ assigned = {}
    /\ handed = {}
    /\ cmLast = NoRequest
    /\ kAddrs = <<>>
    /\ kConns = {}
    /\ kDepth = 0
    /\ kNow = 0
    /\ kPanic = FALSE
    /\ kLast = NoOp
    /\ probe = NoProbe
    /\ pNow = 0
    /\ pCfg = NoPssCfg
    /\ fwdCache = <<>>
    /\ inbox = <<>>
    /\ calls = <<>>
    /\ pending = {}
    /\ handled = {}
    /\ dispatched = <<>>
    /\ pCount = NoPssCount
    /\ wSymKeys = <<>>
    /\ symKeyPool = <<>>
    /\ symKeyDecryptCache = [s \in CacheSlots |-> NoKeyId]
    /\ symKeyDecryptCacheCursor = 0
    /\ keyPanic = FALSE
    /\ keyLast = NoKeyOp
    /\ hTopics = [t \in Topics |-> NoMap]
    /\ hMaps = <<>>
    /\ hRegs = <<>>
    /\ hLoop = NoLoop
    /\ gc = NoGc
    /\ lk = NoLk
    /\ pr = NoPrune

\* NewKademlia: empty pots, depth 0
InitKad ==
    /\ cmBuild = "lookup"
    /\ clients = [ip \in ClientIPs |-> NoNode]
    /\ assigned = {}
    /\ handed = {}
    /\ cmLast = NoRequest
    /\ kAddrs = <<>>
    /\ kConns = {}
    /\ kDepth = 0
    /\ kNow = 0
    /\ kPanic = FALSE
    /\ kLast = NoOp
    /\ probe = NoProbe
    /\ pNow = 0
    /\ pCfg = NoPssCfg
    /\ fwdCache = <<>>
    /\ inbox = <<>>
    /\ calls = <<>>
    /\ pending = {}
    /\ handled = {}
    /\ dispatched = <<>>
    /\ pCount = NoPssCount
    /\ wSymKeys = <<>>
    /\ symKeyPool = <<>>
    /\ symKeyDecryptCache = [s \in CacheSlots |-> NoKeyId]
    /\ symKeyDecryptCacheCursor = 0
    /\ keyPanic = FALSE
    /\ keyLast = NoKeyOp
    /\ hTopics = [t \in Topics |-> NoMap]
    /\ hMaps = <<>>
    /\ hRegs = <<>>
    /\ hLoop = NoLoop
    /\ gc = NoGc
    /\ lk = NoLk
    /\ pr = NoPrune

InitInbound ==
    /\ cmBuild = "lookup"
    /\ clients = [ip \in ClientIPs |-> NoNode]
    /\ assigned = {}
    /\ handed = {}
    /\ cmLast = NoRequest
    /\ kAddrs = <<>>
    /\ kConns = {}
    /\ kDepth = 0
    /\ kNow = 0
    /\ kPanic = FALSE
    /\ kLast = NoOp
    /\ probe \in [req : InboundRequests, ret : {NoInbound}]
    /\ pNow = 0
    /\ pCfg = NoPssCfg
    /\ fwdCache = <<>>
    /\ inbox = <<>>
    /\ calls = <<>>
    /\ pending = {}
    /\ handled = {}
    /\ dispatched = <<>>
    /\ pCount = NoPssCount
    /\ wSymKeys = <<>>
    /\ symKeyPool = <<>>
    /\ symKeyDecryptCache = [s \in CacheSlots |-> NoKeyId]
    /\ symKeyDecryptCacheCursor = 0
    /\ keyPanic = FALSE
    /\ keyLast = NoKeyOp
    /\ hTopics = [t \in Topics |-> NoMap]
    /\ hMaps = <<>>
    /\ hRegs = <<>>
    /\ hLoop = NoLoop
    /\ gc = NoGc
    /\ lk = NoLk
    /\ pr = NoPrune

InitPrune ==
    /\ cmBuild = "lookup"
    /\ clients = [ip \in ClientIPs |-> NoNode]
    /\ assigned = {}
    /\ handed = {}
    /\ cmLast = NoRequest
    /\ kAddrs = <<>>
    /\ kConns = {}
    /\ kDepth = 0
    /\ kNow = 0
    /\ kPanic = FALSE
    /\ kLast = NoOp
    /\ probe = NoProbe
    /\ pNow = 0
    /\ pCfg = NoPssCfg
    /\ fwdCache = <<>>
    /\ inbox = <<>>
    /\ calls = <<>>
    /\ pending = {}
    /\ handled = {}
    /\ dispatched = <<>>
    /\ pCount = NoPssCount
    /\ wSymKeys = <<>>
    /\ symKeyPool = <<>>
    /\ symKeyDecryptCache = [s \in CacheSlots |-> NoKeyId]
    /\ symKeyDecryptCacheCursor = 0
    /\ keyPanic = FALSE
    /\ keyLast = NoKeyOp
    /\ hTopics = [t \in Topics |-> NoMap]
    /\ hMaps = <<>>
    /\ hRegs = <<>>
    /\ hLoop = NoLoop
    /\ gc = NoGc
    /\ lk = NoLk
    /\ pr \in {[NoPrune EXCEPT !.live = S] : S \in SUBSET PrunePeers}

InitIter ==
    /\ cmBuild = "lookup"
    /\ clients = [ip \in ClientIPs |-> NoNode]
    /\ assigned = {}
    /\ handed = {}
    /\ cmLast = NoRequest
    /\ kAddrs = <<>>
    /\ kConns = {}
    /\ kDepth = 0
    /\ kNow = 0
    /\ kPanic = FALSE
    /\ kLast = NoOp
    /\ probe \in [req : IterRequests, op : {"none"}, ret : {NoIter}]
    /\ pNow = 0
    /\ pCfg = NoPssCfg
    /\ fwdCache = <<>>
    /\ inbox = <<>>
    /\ calls = <<>>
    /\ pending = {}
    /\ handled = {}
    /\ dispatched = <<>>
    /\ pCount = NoPssCount
    /\ wSymKeys = <<>>
    /\ symKeyPool = <<>>
    /\ symKeyDecryptCache = [s \in CacheSlots |-> NoKeyId]
    /\ symKeyDecryptCacheCursor = 0
    /\ keyPanic = FALSE
    /\ keyLast = NoKeyOp
    /\ hTopics = [t \in Topics |-> NoMap]
    /\ hMaps = <<>>
    /\ hRegs = <<>>
    /\ hLoop = NoLoop
    /\ gc = NoGc
    /\ lk = NoLk
    /\ pr = NoPrune

InitKadLock ==
    /\ cmBuild = "lookup"
    /\ clients = [ip \in ClientIPs |-> NoNode]
    /\ assigned = {}
    /\ handed = {}
    /\ cmLast = NoRequest
    /\ kAddrs = <<>>
    /\ kConns = {}
    /\ kDepth = 0
    /\ kNow = 0
    /\ kPanic = FALSE
    /\ kLast = NoOp
    /\ probe = NoProbe
    /\ pNow = 0
    /\ pCfg = NoPssCfg
    /\ fwdCache = <<>>
    /\ inbox = <<>>
    /\ calls = <<>>
    /\ pending = {}
    /\ handled = {}
    /\ dispatched = <<>>
    /\ pCount = NoPssCount
    /\ wSymKeys = <<>>
    /\ symKeyPool = <<>>
    /\ symKeyDecryptCache = [s \in CacheSlots |-> NoKeyId]
    /\ symKeyDecryptCacheCursor = 0
    /\ keyPanic = FALSE
    /\ keyLast = NoKeyOp
    /\ hTopics = [t \in Topics |-> NoMap]
    /\ hMaps = <<>>
    /\ hRegs = <<>>
    /\ hLoop = NoLoop
    /\ gc = NoGc
    /\ lk = [NoLk EXCEPT !.comp = "kad"]
    /\ pr = NoPrune

InitPssLock ==
    /\ cmBuild = "lookup"
    /\ clients = [ip \in ClientIPs |-> NoNode]
    /\ assigned = {}
    /\ handed = {}
    /\ cmLast = NoRequest
    /\ kAddrs = <<>>
    /\ kConns = {}
    /\ kDepth = 0
    /\ kNow = 0
    /\ kPanic = FALSE
    /\ kLast = NoOp
    /\ probe = NoProbe
    /\ pNow = 0
    /\ pCfg = NoPssCfg
    /\ fwdCache = <<>>
    /\ inbox = <<>>
    /\ calls = <<>>
    /\ pending = {}
    /\ handled = {}
    /\ dispatched = <<>>
    /\ pCount = NoPssCount
    /\ wSymKeys = <<>>
    /\ symKeyPool = <<>>
    /\ symKeyDecryptCache = [s \in CacheSlots |-> NoKeyId]
    /\ symKeyDecryptCacheCursor = 0
    /\ keyPanic = FALSE
    /\ keyLast = NoKeyOp
    /\ hTopics = [t \in Topics |-> NoMap]
    /\ hMaps = <<>>
    /\ hRegs = <<>>
    /\ hLoop = NoLoop
    /\ gc = NoGc
    /\ lk = [NoLk EXCEPT !.comp = "pss"]
    /\ pr = NoPrune

InitGC ==
    /\ cmBuild = "lookup"
    /\ clients = [ip \in ClientIPs |-> NoNode]
    /\ assigned = {}
    /\ handed = {}
    /\ cmLast = NoRequest
    /\ kAddrs = <<>>
    /\ kConns = {}
    /\ kDepth = 0
    /\ kNow = 0
    /\ kPanic = FALSE
    /\ kLast = NoOp
    /\ probe = NoProbe
    /\ pNow = 0
    /\ pCfg = NoPssCfg
    /\ fwdCache = <<>>
    /\ inbox = <<>>
    /\ calls = <<>>
    /\ pending = {}
    /\ handled = {}
    /\ dispatched = <<>>
    /\ pCount = NoPssCount
    /\ wSymKeys = <<"ka">>
    /\ symKeyPool \in GcPools
    /\ symKeyDecryptCache = [s \in CacheSlots |-> NoKeyId]
    /\ symKeyDecryptCacheCursor = 0
    /\ keyPanic = FALSE
    /\ keyLast = NoKeyOp
    /\ hTopics = [t \in Topics |-> NoMap]
    /\ hMaps = <<>>
    /\ hRegs = <<>>
    /\ hLoop = NoLoop
    /\ gc = NoGc
    /\ lk = NoLk
    /\ pr = NoPrune

InitSend ==
    /\ cmBuild = "lookup"
    /\ clients = [ip \in ClientIPs |-> NoNode]
    /\ assigned = {}
    /\ handed = {}
    /\ cmLast = NoRequest
    /\ kAddrs = <<>>
    /\ kConns = {}
    /\ kDepth = 0
    /\ kNow = 0
    /\ kPanic = FALSE
    /\ kLast = NoOp
    /\ probe \in [req : SendRequests, ret : {NoSend}]
    /\ pNow = 0
    /\ pCfg = NoPssCfg
    /\ fwdCache = <<>>
    /\ inbox = <<>>
    /\ calls = <<>>
    /\ pending = {}
    /\ handled = {}
    /\ dispatched = <<>>
    /\ pCount = NoPssCount
    /\ wSymKeys = <<>>
    /\ symKeyPool = <<>>
    /\ symKeyDecryptCache = [s \in CacheSlots |-> NoKeyId]
    /\ symKeyDecryptCacheCursor = 0
    /\ keyPanic = FALSE
    /\ keyLast = NoKeyOp
    /\ hTopics = [t \in Topics |-> NoMap]
    /\ hMaps = <<>>
    /\ hRegs = <<>>
    /\ hLoop = NoLoop
    /\ gc = NoGc
    /\ lk = NoLk
    /\ pr = NoPrune

\* any set of live peers, on which neighbourhoodDepth is to be applied
InitDepth ==
    /\ cmBuild = "lookup"
    /\ clients = [ip \in ClientIPs |-> NoNode]
    /\ assigned = {}
    /\ handed = {}
    /\ cmLast = NoRequest
    /\ kAddrs = <<>>
    /\ kConns = {}
    /\ kDepth = 0
    /\ kNow = 0
    /\ kPanic = FALSE
    /\ kLast = NoOp
    /\ probe \in [live : SUBSET ProbePeers, depth : {-1}]
    /\ pNow = 0
    /\ pCfg = NoPssCfg
    /\ fwdCache = <<>>
    /\ inbox = <<>>
    /\ calls = <<>>
    /\ pending = {}
    /\ handled = {}
    /\ dispatched = <<>>
    /\ pCount = NoPssCount
    /\ wSymKeys = <<>>
    /\ symKeyPool = <<>>
    /\ symKeyDecryptCache = [s \in CacheSlots |-> NoKeyId]
    /\ symKeyDecryptCacheCursor = 0
    /\ keyPanic = FALSE
    /\ keyLast = NoKeyOp
    /\ hTopics = [t \in Topics |-> NoMap]
    /\ hMaps = <<>>
    /\ hRegs = <<>>
    /\ hLoop = NoLoop
    /\ gc = NoGc
    /\ lk = NoLk
    /\ pr = NoPrune

\* one pss node, its live peers outside the model, given one inbound message
\* (possibly several times) and its own send requests
InitPss ==
    /\ cmBuild = "lookup"
    /\ clients = [ip \in ClientIPs |-> NoNode]
    /\ assigned = {}
    /\ handed = {}
    /\ cmLast = NoRequest
    /\ kAddrs = <<>>
    /\ kConns = {}
    /\ kDepth = 0
    /\ kNow = 0
    /\ kPanic = FALSE
    /\ kLast = NoOp
    /\ probe = NoProbe
    /\ pNow = 0
    /\ pCfg \in [conns : {[n \in {NodeB} |-> S] : S \in PeerSets},
                 handlers : {[n \in {NodeB} |-> [t \in Topics |-> IF t = "t1" THEN Handlers ELSE {}]]},
                 inject : {{m} : m \in InboundMsgs},
                 sends : {[node : {NodeB}, to : {NodeC, Prefix(NodeB, 1)}, topic : {"t1"},
                          encFor : {NodeC}]},
                 lossy : {TRUE}, lastTick : {MaxClock}]
    /\ fwdCache = [n \in {NodeB} |-> {}]
    /\ inbox = [n \in {NodeB} |-> <<>>]
    /\ calls = <<>>
    /\ pending = {}
    /\ handled = {}
    /\ dispatched = <<>>
    /\ pCount = NoPssCount
    /\ wSymKeys = <<>>
    /\ symKeyPool = <<>>
    /\ symKeyDecryptCache = [s \in CacheSlots |-> NoKeyId]
    /\ symKeyDecryptCacheCursor = 0
    /\ keyPanic = FALSE
    /\ keyLast = NoKeyOp
    /\ hTopics = [t \in Topics |-> NoMap]
    /\ hMaps = <<>>
    /\ hRegs = <<>>
    /\ hLoop = NoLoop
    /\ gc = NoGc
    /\ lk = NoLk
    /\ pr = NoPrune

\* nodes A, B and C in a line: B is the only live peer of A and of C; A is
\* asked to send to C; stores and transport sends succeed
InitRelay ==
    /\ cmBuild = "lookup"
    /\ clients = [ip \in ClientIPs |-> NoNode]
    /\ assigned = {}
    /\ handed = {}
    /\ cmLast = NoRequest
    /\ kAddrs = <<>>
    /\ kConns = {}
    /\ kDepth = 0
    /\ kNow = 0
    /\ kPanic = FALSE
    /\ kLast = NoOp
    /\ probe = NoProbe
    /\ pNow = 0
    /\ pCfg = [conns |-> (NodeA :> {NodeB}) @@ (NodeB :> {NodeA, NodeC}) @@ (NodeC :> {NodeB}),
               handlers |-> [n \in {NodeA, NodeB, NodeC} |->
                               [t \in Topics |-> IF t = "t1" THEN Handlers ELSE {}]],
               inject |-> {},
               sends |-> {[node |-> NodeA, to |-> NodeC, topic |-> "t1", encFor |-> NodeC]},
               lossy |-> FALSE, lastTick |-> MsgTTL + 1]
    /\ fwdCache = [n \in {NodeA, NodeB, NodeC} |-> {}]
    /\ inbox = [n \in {NodeA, NodeB, NodeC} |-> [p \in {NodeA, NodeB, NodeC} |-> <<>>]]
    /\ calls = <<>>
    /\ pending = {}
    /\ handled = {}
    /\ dispatched = <<>>
    /\ pCount = NoPssCount
    /\ wSymKeys = <<>>
    /\ symKeyPool = <<>>
    /\ symKeyDecryptCache = [s \in CacheSlots |-> NoKeyId]
    /\ symKeyDecryptCacheCursor = 0
    /\ keyPanic = FALSE
    /\ keyLast = NoKeyOp
    /\ hTopics = [t \in Topics |-> NoMap]
    /\ hMaps = <<>>
    /\ hRegs = <<>>
    /\ hLoop = NoLoop
    /\ gc = NoGc
    /\ lk = NoLk
    /\ pr = NoPrune

\* NewPss: no symmetric keys, an empty decrypt cache
InitKeys ==
    /\ cmBuild = "lookup"
    /\ clients = [ip \in ClientIPs |-> NoNode]
    /\ assigned = {}
    /\ handed = {}
    /\ cmLast = NoRequest
    /\ kAddrs = <<>>
    /\ kConns = {}
    /\ kDepth = 0
    /\ kNow = 0
    /\ kPanic = FALSE
    /\ kLast = NoOp
    /\ probe = NoProbe
    /\ pNow = 0
    /\ pCfg = NoPssCfg
    /\ fwdCache = <<>>
    /\ inbox = <<>>
    /\ calls = <<>>
    /\ pending = {}
    /\ handled = {}
    /\ dispatched = <<>>
    /\ pCount = NoPssCount
    /\ wSymKeys = <<>>
    /\ symKeyPool = <<>>
    /\ symKeyDecryptCache = [s \in CacheSlots |-> NoKeyId]
    /\ symKeyDecryptCacheCursor = 0
    /\ keyPanic = FALSE
    /\ keyLast = NoKeyOp
    /\ hTopics = [t \in Topics |-> NoMap]
    /\ hMaps = <<>>
    /\ hRegs = <<>>
    /\ hLoop = NoLoop
    /\ gc = NoGc
    /\ lk = NoLk
    /\ pr = NoPrune

SpecCM == InitCM /\ [][CMNext]_vars
SpecKad == InitKad /\ [][KadNext]_vars
SpecSelf == InitKad /\ [][SelfNext]_vars
SpecDepth == InitDepth /\ [][ProbeNext]_vars
SpecPss == InitPss /\ [][PssNext]_vars
SpecKeys == InitKeys /\ [][KeysNext]_vars
SpecReg == InitKeys /\ [][RegNext]_vars
SpecSend == InitSend /\ [][SendNext]_vars
SpecGC == InitGC /\ [][GcNext]_vars
SpecUnsub == InitKeys /\ [][UnsubNext]_vars
SpecInbound == InitInbound /\ [][InboundNext]_vars
SpecPrune == InitPrune /\ [][PruneNext]_vars
SpecIter == InitIter /\ [][IterNext]_vars
SpecKadLock == InitKadLock /\ [][LkNext]_vars
SpecPssLock == InitPssLock /\ [][LkNext]_vars
\* every step of the relay that stays possible is eventually taken
SpecRelay ==
    /\ InitRelay /\ [][RelayNext]_vars
    /\ WF_vars(PssSend) /\ WF_vars(PssReceive) /\ WF_vars(PssForwardIter)
    /\ WF_vars(PssForwardCache) /\ WF_vars(PssDispatch)

(***************************************************************************)
(* Properties                                                              *)
(***************************************************************************)
\* the request recorded in cmLast was routed to getNode (not answered by /list)
CMRouted == cmLast.status # 0 /\ ~(cmBuild = "nolookup" /\ cmLast.path = "/list")
CMLastIP == SplitHostPort(cmLast.addr).host
CMLastParsed == ~SplitHostPort(cmLast.addr).err
CMUnchanged == clients = cmLast.before.clients /\ assigned = cmLast.before.assigned

\* C4: no simulation node has been handed to two clients with different IP
\* addresses, whatever requests were served and in whichever order.
C4_Exclusive ==
    \A p \in handed, q \in handed : p[2] = q[2] => p[1] = q[1]

\* C4 witness: two clients with different IPs have each been handed a node.
C4_Witness ==
    \E p \in handed, q \in handed : p[1] # q[1] /\ p[2] # q[2]

\* C5: a request from a client IP that already has a node is proxied to that
\* same node and consumes no further unassigned node.
C5_RoutedByIP ==
    (CMRouted /\ CMLastParsed /\ cmLast.before.clients[CMLastIP] # NoNode)
        => /\ cmLast.status = 101
           /\ cmLast.node = cmLast.before.clients[CMLastIP]
           /\ assigned = cmLast.before.assigned

\* C6 as stated: once every node is assigned any further request gets 503 and
\* changes nothing, and 503 is given only then or on an unparsable address.
C6_Original ==
    cmLast.status # 0 =>
        /\ cmLast.before.assigned = SimNodes => (cmLast.status = 503 /\ CMUnchanged)
        /\ cmLast.status = 503 => (cmLast.before.assigned = SimNodes \/ ~CMLastParsed)

\* the request in cmLast was served from the client map (first source only)
CMServedFromMap ==
    cmBuild = "lookup" /\ CMLastParsed /\ cmLast.before.clients[CMLastIP] # NoNode

\* C6 amended: once every node is assigned, any further request that is routed
\* to getNode and is not served from the client map gets 503; a 503 changes
\* neither map and is given only when all nodes are assigned or the remote
\* address cannot be parsed.
C6_Exhaustion ==
    cmLast.status # 0 =>
        /\ (cmLast.before.assigned = SimNodes /\ CMRouted /\ ~CMServedFromMap)
              => cmLast.status = 503
        /\ cmLast.status = 503
              => (CMUnchanged /\ (cmLast.before.assigned = SimNodes \/ ~CMLastParsed))

\* C6 witness: a parsable request arrived with all nodes assigned and got 503.
C6_Witness ==
    /\ cmLast.status = 503
    /\ CMLastParsed
    /\ cmLast.before.assigned = SimNodes

\* the proximity order of the MinProxBinSize-th nearest peer of live: the
\* largest order d with at least MinProxBinSize peers at order >= d
KthNearestPO(live) ==
    SetMax({d \in 0..AddrBits :
              Cardinality({p \in live : PO(kBase, p) >= d}) >= MinProxBinSize})
NeighbourhoodDepthOf(live) ==
    IF Cardinality(live) < MinProxBinSize THEN 0 ELSE KthNearestPO(live)

\* C8: for every set of live peers neighbourhoodDepth is 0 when fewer than
\* MinProxBinSize peers are live, and otherwise the proximity order of the
\* MinProxBinSize-th nearest live peer.
C8_NeighbourhoodDepth ==
    probe.depth # -1 => probe.depth = NeighbourhoodDepthOf(probe.live)

\* C8 witness: a live set of more than MinProxBinSize peers whose nearest
\* peer is nearer than the depth computed.
C8_Witness ==
    /\ probe.depth > 0
    /\ Cardinality(probe.live) > MinProxBinSize
    /\ \E p \in probe.live : PO(kBase, p) > probe.depth

\* C9: in every reachable state the cached depth is 0 whenever fewer than
\* MinProxBinSize peers are live.
C9_CachedDepthZero ==
    Cardinality(kConns) < MinProxBinSize => kDepth = 0

\* C10 as stated: On sets the cached depth to the neighbourhood depth of the
\* resulting live set and returns it with changed = (it differs from before).
C10_Original ==
    kLast.op = "On" =>
        /\ kDepth = NeighbourhoodDepthOf(kConns)
        /\ kLast.o = kDepth
        /\ kLast.flag = (kDepth # kLast.depthBefore)

\* the lowest proximity order whose bin of known peers holds fewer than n
\* peers, less one when no known peer lies at or beyond that order
SaturationOf(known, n) ==
    LET s == SetMin({po \in 0..AddrBits : Cardinality(Bin(known, kBase, po)) < n})
    IN  IF \E p \in known : PO(kBase, p) >= s THEN s ELSE s - 1

\* C10 amended: On sets the cached depth to the depth of saturation, the
\* smaller of the neighbourhood depth of the resulting live set and the
\* saturation of the known peers at MinBinSize, and returns that value with
\* changed = TRUE exactly when it differs from the depth cached before.
C10_OnDepth ==
    kLast.op = "On" =>
        /\ LET nd == NeighbourhoodDepthOf(kConns)
               sat == SaturationOf(Known, MinBinSize)
           IN  kDepth = IF nd < sat THEN nd ELSE sat
        /\ kLast.o = kDepth
        /\ kLast.flag = (kDepth # kLast.depthBefore)

\* C10 witness: an On call that raised the cached depth above 0.
C10_Witness ==
    /\ kLast.op = "On"
    /\ kLast.flag
    /\ kDepth > 0
    /\ kLast.a \in kConns

(***************************************************************************)
(* pss: flood guard, relay, TTL window                                     *)
(***************************************************************************)
\* how many times a forward call tried to send to peer
Attempts(c, peer) ==
    Cardinality({j \in 1..Len(c.tried) :
                   c.tried[j].peer = peer /\ c.tried[j].res \in {"sent", "failed"}})

\* C1: of two forward calls of a node for the same serialized message and
\* digest that are made within the cache TTL of each other, every live peer
\* gets at most one send attempt in total; and the flood guard blocks a
\* forward only when an earlier forward of the same digest was recorded.
C1_FloodGuardDedup ==
    \A i, j \in 1..Len(calls) :
        /\ (/\ i < j
            /\ calls[i].node = calls[j].node
            /\ calls[i].msg = calls[j].msg
            /\ calls[i].digest = calls[j].digest
            /\ calls[j].t0 - calls[i].t0 < CacheTTL)
           => \A peer \in pCfg.conns[calls[i].node] :
                  Attempts(calls[i], peer) + Attempts(calls[j], peer) <= 1
        /\ calls[j].blocked
           => \E k \in 1..Len(calls) :
                  /\ k # j /\ calls[k].node = calls[j].node
                  /\ calls[k].digest = calls[j].digest /\ calls[k].sent > 0

\* the first message node A is asked to send, once A's forward call exists
RelayMsgs ==
    {calls[i].msg : i \in {j \in 1..Len(calls) :
                             /\ calls[j].node = NodeA /\ calls[j].conn = ApiConn
                             /\ calls[j].msg.payload.nonce = 1}}
\* a forward call of node handed message m to peer
SentBy(node, peer, m) ==
    \E i \in 1..Len(calls) :
        /\ calls[i].node = node /\ calls[i].msg = m
        /\ peer \in SentTo(calls[i].tried)
\* A sent m to B, B forwarded it to C, and C dispatched it to every handler
\* of its topic
RelayDelivered ==
    \E m \in RelayMsgs :
        /\ SentBy(NodeA, NodeB, m)
        /\ SentBy(NodeB, NodeC, m)
        /\ \E k \in 1..Len(dispatched) :
               /\ dispatched[k].node = NodeC /\ dispatched[k].msg = m
               /\ dispatched[k].invoked = pCfg.handlers[NodeC][m.payload.topic]
               /\ dispatched[k].invoked # {}
\* A sent m to B, and B read it after its expiry and dropped it
RelayExpired ==
    \E m \in RelayMsgs :
        /\ SentBy(NodeA, NodeB, m)
        /\ \E h \in handled :
               h.node = NodeB /\ h.msg = m /\ h.result = "expired" /\ m.expire < h.time

\* C2 as stated: once A sends the message addressed to C, A sends it to B, B
\* forwards it to C, and C eventually dispatches it to every handler of the
\* topic.
C2_Original == (RelayMsgs # {}) ~> RelayDelivered

\* C2: once A sends the message addressed to C, eventually either A has sent
\* it to B, B has forwarded it to C and C has dispatched it to every handler
\* of the topic, or B has read it after its expiry and dropped it.
C2_Relay == (RelayMsgs # {}) ~> (RelayDelivered \/ RelayExpired)

C2_Witness == RelayDelivered /\ pNow > 0

\* C3 as stated: every message handled when its expiry is beyond now + msgTTL
\* gets "Invalid TTL" and is neither forwarded nor dispatched, whether or not
\* the node's address matches the destination.
C3_Original ==
    \A h \in handled :
        h.msg.expire > h.time + MsgTTL => h.result = "invalidTTL" /\ h.call = 0

\* the node's address starts with the destination of the message
MatchesPrefix(node, to) == Len(to) <= Len(node) /\ to = [i \in 1..Len(to) |-> node[i]]

\* C3: every message handled by a node whose address does not match the
\* destination, when the expiry is beyond now + msgTTL, gets "Invalid TTL"
\* and is neither forwarded nor dispatched nor dropped as expired; a message
\* whose destination the node matches is processed whatever its expiry.
C3_InvalidTTL ==
    \A h \in handled :
        /\ (h.msg.expire > h.time + MsgTTL /\ ~MatchesPrefix(h.node, h.msg.to))
           => h.result = "invalidTTL" /\ h.call = 0
        /\ MatchesPrefix(h.node, h.msg.to) => h.result \in {"processed", "undecrypted"}
        /\ h.result = "invalidTTL" => h.msg.expire > h.time + MsgTTL

C3_Witness ==
    \E h \in handled :
        /\ h.msg.expire > h.time + MsgTTL /\ ~MatchesPrefix(h.node, h.msg.to)
        /\ h.result = "invalidTTL"
        /\ calls = <<>> /\ pending = {} /\ dispatched = <<>>

(***************************************************************************)
(* pss: key garbage collection                                             *)
(***************************************************************************)
\* the key ids held by the recent-decrypt cache
CachedKeyIds == {symKeyDecryptCache[slot] : slot \in CacheSlots} \ {NoKeyId}

\* C7: after cleanKeys a binding is still in the pool exactly if it was there
\* before and was protected or its key id is in the decrypt cache; the
\* bindings kept are unchanged, and the count returned is the number of
\* bindings removed.
C7_CleanKeys ==
    keyLast.op = "cleanKeys" =>
        /\ DOMAIN symKeyPool =
               {b \in DOMAIN keyLast.before :
                    keyLast.before[b].protected \/ b[1] \in CachedKeyIds}
        /\ \A b \in DOMAIN symKeyPool : symKeyPool[b] = keyLast.before[b]
        /\ keyLast.count = Cardinality(DOMAIN keyLast.before \ DOMAIN symKeyPool)
        /\ ~keyPanic

C7_Witness ==
    /\ keyLast.op = "cleanKeys"
    /\ keyLast.count > 0
    /\ \E b \in DOMAIN symKeyPool : symKeyPool[b].protected /\ b[1] \notin CachedKeyIds
    /\ \E b \in DOMAIN symKeyPool : ~symKeyPool[b].protected /\ b[1] \in CachedKeyIds

(***************************************************************************)
(* Kademlia table: indexes, registration, peer suggestion                  *)
(***************************************************************************)
\* C11: every peer in the live index is in the known index; On of a peer that
\* was not known leaves it in both indexes, and Off of a known peer leaves it
\* known and not live.
C11_LiveImpliesKnown ==
    /\ kConns \subseteq Known
    /\ (kLast.op = "On" /\ ~kLast.wasKnown)
           => kLast.a \in kConns /\ kLast.a \in Known /\ kAddrs[kLast.a].conn
    /\ (kLast.op = "Off" /\ kLast.wasKnown)
           => kLast.a \in Known /\ kLast.a \notin kConns /\ ~kAddrs[kLast.a].conn

\* C12: Register returns the is-self error whenever one of the addresses it
\* is given is the base address, and the base address is never in the known
\* index.
C12_SelfNeverKnown ==
    /\ (kLast.op = "Register" /\ kLast.self) => kLast.flag
    /\ kBase \notin Known

\* C11 witness: a live peer was taken off while another peer stayed live, and
\* no call has broken the contract of Off.
C11_Witness ==
    /\ kLast.op = "Off"
    /\ kLast.wasLive
    /\ kLast.a \in Known \ kConns
    /\ kConns # {}
    /\ ~kPanic

\* C13: Register leaves every address that is already known with its one
\* record, and that record as it was: same seenAt, same retry count, same
\* live or offline status. A peer whose retries are used up stays so.
C13_FirstSeen ==
    [][kLast'.op = "Register"
          => /\ kConns' = kConns
             /\ \A p \in Known : p \in DOMAIN kAddrs' /\ kAddrs'[p] = kAddrs[p]]_vars

\* C13 witness: Register was given a known peer with more than MaxRetries
\* retries, and the peer still has them.
C13_Witness ==
    /\ kLast.op = "Register"
    /\ kLast.exhausted
    /\ ~kLast.flag
    /\ \E p \in Known \ kConns : kAddrs[p].retries > MaxRetries

\* C14: the peer SuggestPeer returns is the one callable returned: a known
\* peer that is not live and whose retry count, when the call was made, did not
\* exceed MaxRetries.
C14_Callable ==
    [][(kLast'.op = "SuggestPeer" /\ kLast'.a # NoPeer /\ kNow' = kNow)
          => /\ kLast'.a \in Known \ kConns
             /\ ~kAddrs[kLast'.a].conn
             /\ kAddrs[kLast'.a].retries <= MaxRetries]_vars

\* C14 witness: a peer was returned with exactly MaxRetries retries behind it,
\* while a peer with more retries than that and a live peer were in the table.
C14_Witness ==
    /\ kLast.op = "SuggestPeer"
    /\ kLast.a # NoPeer
    /\ kAddrs[kLast.a].retries = MaxRetries + 1
    /\ kConns # {}
    /\ \E p \in Known \ (kConns \cup {kLast.a}) : kAddrs[p].retries > MaxRetries

\* the offline peers at proximity order depth or more that callable accepts
\* when k.Reachable refuses the peers in rejected
NeighbourCandidates(depth, rejected) ==
    {p \in Known \ kConns :
        /\ PO(kBase, p) >= depth
        /\ p \notin rejected
        /\ kAddrs[p].retries <= MaxRetries
        /\ \A r \in RetryDivs : AllowedRetries(kNow - kAddrs[p].seenAt, r) >= kAddrs[p].retries}

\* C15: when a known peer that is not live, has proximity order at least the
\* neighbourhood depth and is callable exists, SuggestPeer returns one of
\* these peers, none of them being nearer than it, with order 0 and want
\* false; and the peer its first walk returns is never from a bin below depth.
C15_NeighbourFirst ==
    [][(kLast'.op = "SuggestPeer" /\ kNow' = kNow)
          => LET depth == neighbourhoodDepth(kConns, kBase)
                 cands == NeighbourCandidates(depth, kLast'.rejected)
             IN  /\ cands # {}
                     => /\ kLast'.a \in cands
                        /\ \A p \in cands : PO(kBase, kLast'.a) >= PO(kBase, p)
                        /\ kLast'.o = 0 /\ ~kLast'.flag
                        /\ kLast'.phase = 1
                 /\ kLast'.phase = 1
                     => kLast'.a # NoPeer /\ PO(kBase, kLast'.a) >= depth]_vars

\* C15 witness: with live peers setting a depth above 0, a neighbourhood peer
\* was returned while an offline peer that k.Reachable did not refuse and
\* that had never been tried was known in a bin below depth.
C15_Witness ==
    /\ kLast.op = "SuggestPeer"
    /\ kLast.phase = 1
    /\ neighbourhoodDepth(kConns, kBase) > 0
    /\ PO(kBase, kLast.a) >= neighbourhoodDepth(kConns, kBase)
    /\ \E p \in Known \ (kConns \cup kLast.rejected) :
           /\ PO(kBase, p) < neighbourhoodDepth(kConns, kBase)
           /\ kAddrs[p].retries = 0

\* the proximity orders below the neighbourhood depth that have fewer than
\* MinBinSize live peers
ShortBins ==
    {po \in 0..(neighbourhoodDepth(kConns, kBase) - 1) :
        Cardinality(Bin(kConns, kBase, po)) < MinBinSize}

\* C16: a peer SuggestPeer returns after its first walk found none is a known
\* peer that is not live, at exactly the lowest proximity order below depth
\* that has fewer than MinBinSize live peers.
C16_SelectedBin ==
    (kLast.op = "SuggestPeer" /\ kLast.phase = 3)
        => /\ ShortBins # {}
           /\ kLast.a \in Known \ kConns
           /\ PO(kBase, kLast.a) = SetMin(ShortBins)

Registered(t) == {k \in DOMAIN hRegs : hRegs[k].topic = t /\ ~hRegs[k].called}

\* C18: with every unsubscribe closure called at most once, the handlers of a
\* topic are exactly those registered for it and not yet unsubscribed, and
\* the topic has an entry exactly if there is such a handler.
C18_Registry ==
    \A t \in Topics :
        /\ hTopics[t] # NoMap <=> Registered(t) # {}
        /\ MapEntries(hTopics[t]) = Registered(t)

\* C18 witness: two handlers are registered for one topic while the entry of
\* another topic is gone after its only handler was unsubscribed.
C18_Witness ==
    \E t, u \in Topics :
        /\ t # u
        /\ Cardinality(MapEntries(hTopics[t])) >= 2
        /\ hTopics[u] = NoMap
        /\ \E k \in DOMAIN hRegs : hRegs[k].topic = u /\ hRegs[k].called

\* how many times the handler loop invoked handler k
Invocations(k) == Cardinality({i \in 1..Len(hLoop.invoked) : hLoop.invoked[i] = k})

\* C19: the handler loop of process runs to its end, and when process has
\* returned every handler that was registered for the topic when the
\* handlers were read has been invoked exactly once, whatever errors the
\* handlers returned.
C19_DispatchIsolation ==
    /\ hLoop.state # "crashed"
    /\ hLoop.state = "returned" => \A k \in hLoop.atStart : Invocations(k) = 1

\* the forward calls process started in a goroutine of their own
SpawnedCalls == {i \in 1..Len(calls) : calls[i].conn = GoConn}
\* the handlers of node have been given message m
WasDispatched(node, m) ==
    \E j \in 1..Len(dispatched) : dispatched[j].node = node /\ dispatched[j].msg = m
\* process has decrypted m at node and its handlers are still to be invoked
IsPending(node, m) == \E d \in pending : d.node = node /\ d.msg = m

\* process started a forward for a handled message exactly if it decrypted
\* the message and the destination is shorter than a full address
ForwardIffPartial ==
    \A h \in handled :
        /\ (h.call # 0 /\ h.call \in SpawnedCalls)
               <=> (h.result = "processed" /\ ByteLen(h.msg.to) < AddrLen)
        /\ (h.result = "processed" /\ ByteLen(h.msg.to) = AddrLen) => h.call = 0

C21_SendErrors ==
    (probe.ret # NoSend /\ probe.req.keyOk /\ probe.req.bound /\ probe.req.hint
         /\ probe.req.fail # "none")
        => probe.ret.err /\ ~probe.ret.forwarded

\* C22: from Start until Stop the task keeps waiting for the ticks of the
\* clean interval and has answered every tick but the one still waiting with
\* a run of cleanKeys, and no run of cleanKeys begins after Stop.
C22_PeriodicGC ==
    /\ (gc.loop # "none" /\ ~gc.quit)
           => gc.loop = "select" /\ gc.tick <= gc.runs + 1
    /\ ~gc.afterStop

\* a send was tried to peer j of a forward call: the peer was not skipped by
\* the flood guard
SendTried(c, j) == c.tried[j].res \in {"sent", "failed"}
\* the peer lies within the neighbourhood depth of the forwarding node
InNeighbourhood(c, peer) ==
    PO(c.node, peer) >= neighbourhoodDepth(pCfg.conns[c.node], c.node)
\* the peer's address matches a strict destination prefix in full
FullPrefixMatch(c, peer) ==
    ByteLen(c.msg.to) < AddrLen /\ c.msg.to = Prefix(peer, ByteLen(c.msg.to))
StopsAt(c, j) ==
    SendTried(c, j) /\ ~InNeighbourhood(c, c.tried[j].peer) /\ ~FullPrefixMatch(c, c.tried[j].peer)
IterRan(c) == c.phase \in {"cache", "done"} /\ ~c.blocked

\* C23: within one forward call, a send tried to a live peer that is neither
\* within the neighbourhood depth nor a full match of a strict destination
\* prefix is the last peer tried, and while no such peer has been tried the
\* iteration goes on to every live peer
C23_StopRule ==
    \A id \in 1..Len(calls) :
        LET c == calls[id]
        IN  IterRan(c) =>
                /\ \A j \in 1..Len(c.tried) : StopsAt(c, j) => j = Len(c.tried)
                /\ (\A j \in 1..Len(c.tried) : ~StopsAt(c, j))
                       => Len(c.tried) = Cardinality(pCfg.conns[c.node])

\* storeMsg failed for the forward call: it ran with the zero digest
StoreFailed(c) == c.phase # "guard" /\ c.digest = ZeroDigest

\* C24: when storing the message fails, forward leaves the message uncached:
\* no flood-guard entry is made for it, and no forward call whose store
\* failed is dropped by the flood guard
C24_StoreFailure ==
    /\ \A n \in DOMAIN fwdCache : \A e \in fwdCache[n] : e.digest # ZeroDigest
    /\ \A id \in 1..Len(calls) : StoreFailed(calls[id]) => ~calls[id].blocked

\* the step of forward call id: calls never shrinks, so the call is at the
\* same position before and after
RecordsDigest(id) ==
    LET c == calls[id]
    IN  /\ c.sent > 0
        /\ \E e \in fwdCache'[c.node] :
               e.digest = c.digest /\ e.expiresAt = pNow + CacheTTL
        /\ \A e \in fwdCache'[c.node] : e.digest # c.digest => e \in fwdCache[c.node]
        /\ \A e \in fwdCache[c.node] : e.digest # c.digest => e \in fwdCache'[c.node]
        /\ \A n \in DOMAIN fwdCache : n # c.node => fwdCache'[n] = fwdCache[n]
ForwardStep(id) ==
    LET c == calls[id]
        d == calls'[id]
    IN  /\ (c.phase = "iter" /\ d.phase # "iter") =>
               /\ d.sent = Cardinality(SentTo(d.tried))
               /\ d.phase = (IF d.sent > 0 THEN "cache" ELSE "done")
               /\ fwdCache' = fwdCache
        /\ (c.phase = "cache" /\ d.phase # "cache") =>
               d.phase = "done" /\ RecordsDigest(id)

\* C25: forward records the digest of the message in the flood-guard cache,
\* expiring at now + cacheTTL, exactly when at least one peer accepted the
\* send; with no peer accepting, the call ends and the cache is as it was.
C25_CacheIffSent ==
    [][/\ \A id \in 1..Len(calls) : ForwardStep(id)
       /\ fwdCache' # fwdCache =>
              \E id \in 1..Len(calls) :
                  calls[id].phase = "cache" /\ calls'[id].phase = "done"]_vars

\* C25 witness: one forward call ended with a peer having accepted the send
\* and its digest in the cache, another ended with no peer accepting.
C25_Witness ==
    \E i, j \in 1..Len(calls) :
        /\ ~calls[i].blocked /\ calls[i].phase = "done" /\ calls[i].sent > 0
        /\ \E e \in fwdCache[calls[i].node] :
               e.digest = calls[i].digest /\ e.expiresAt = calls[i].t0 + CacheTTL
        /\ ~calls[j].blocked /\ calls[j].phase = "done" /\ calls[j].sent = 0
        /\ calls[j].tried # <<>>

(***************************************************************************)
(* Lock discipline                                                         *)
(***************************************************************************)
\* goroutine t is about to write a piece of shared state
AtWrite(t) == AtStmt(t) /\ Stmt(t).k = "write"
AtAccess(t) == AtStmt(t) /\ Stmt(t).k \in {"read", "write"}

\* C26: every mutation of the state of the topology manager (known index,
\* live index, cached depth, retry counter of an entry) is made with the
\* exclusive write lock held, and no update of a retry counter is lost: the
\* counter is the number of calls of callable that returned the peer
C26_WriteLock ==
    lk.comp = "kad" =>
        /\ \A t \in Threads : AtWrite(t) => lk.holds[t] = "W"
        /\ (\A t \in Threads : ~Running(t)) => lk.retries = lk.granted

\* C27: every read and write of the handler registry, the key pools, the
\* decrypt cache and its cursor, the forwarding-peer pool and the digest
\* cache of the messaging engine is made inside the engine's lock
C27_PssLock ==
    lk.comp = "pss" => \A t \in Threads : AtAccess(t) => lk.holds[t] = "W"

(***************************************************************************)
(* Iterators and callable                                                  *)
(***************************************************************************)
\* C28: for EachConn and EachAddr with any reference address, the flag the
\* callback is given for a peer is true exactly when the proximity order of
\* the peer to the node's own base address is at least the neighbourhood depth
C28_NeighbourhoodFlag ==
    probe.op # "none" =>
        \A i \in 1..Len(probe.ret) :
            probe.ret[i].isproxbin <=>
                PO(kBase, probe.ret[i].peer) >= neighbourhoodDepth(probe.req.live, kBase)

\* the live peers EachConn(base, o, f) may hand to f
Eligible == {p \in probe.req.live : PO(BaseOr(probe.req.base), p) <= probe.req.o}
Visited == {probe.ret[i].peer : i \in 1..Len(probe.ret)}

\* C29: EachConn(base, o, f) invokes f only on live peers of proximity order
\* to base at most o, each at most once, nearest first; it visits every such
\* peer unless f returned false, and invokes nothing after f returned false
C29_IteratorOrder ==
    probe.op = "EachConn" =>
        /\ Visited \subseteq Eligible
        /\ \A i \in 1..Len(probe.ret) :
               probe.ret[i].po = PO(BaseOr(probe.req.base), probe.ret[i].peer)
        /\ \A i, j \in 1..Len(probe.ret) :
               i < j => /\ probe.ret[i].peer # probe.ret[j].peer
                        /\ probe.ret[i].po >= probe.ret[j].po
        /\ Len(probe.ret) <= probe.req.stop
        /\ Len(probe.ret) < probe.req.stop => Visited = Eligible
        /\ \A p \in Eligible \ Visited :
               \A i \in 1..Len(probe.ret) :
                   PO(BaseOr(probe.req.base), p) <= probe.ret[i].po

\* C29 witness: the callback returned false at its second invocation while
\* a live peer within the bound was still to come, and a nearer live peer
\* was beyond the bound.
C29_Witness ==
    /\ probe.op = "EachConn"
    /\ Len(probe.ret) = 2
    /\ probe.req.stop = 2
    /\ Eligible \ Visited # {}
    /\ probe.req.live \ Eligible # {}

\* the conditions under which callable returns the record of peer p, for
\* some draw of the random divisor
MayReturn(p, rejected) ==
    /\ ~kAddrs[p].conn
    /\ kAddrs[p].retries <= MaxRetries
    /\ \E r \in RetryDivs : AllowedRetries(kNow - kAddrs[p].seenAt, r) >= kAddrs[p].retries
    /\ p \notin rejected

\* C30: callable returns the record of a peer exactly when the peer is not
\* live, its retry count is at most MaxRetries, the retries allowed by the
\* time elapsed are at least its retry count and Reachable approves; the
\* retry count of that peer then rises by exactly 1, and the entries of the
\* peers callable returned nil for keep their retry count and seenAt.
C30_CallableFrame ==
    [][(kLast'.op = "SuggestPeer" /\ kNow' = kNow) =>
          /\ kLast'.a # NoPeer =>
                 /\ kLast'.a \in Known
                 /\ MayReturn(kLast'.a, kLast'.rejected)
                 /\ kAddrs'[kLast'.a] =
                        [kAddrs[kLast'.a] EXCEPT !.retries = @ + 1]
          /\ DOMAIN kAddrs' = DOMAIN kAddrs
          /\ \A p \in Known : p # kLast'.a => kAddrs'[p] = kAddrs[p]
          /\ kLast'.a = NoPeer =>
                 NeighbourCandidates(neighbourhoodDepth(kConns, kBase),
                                     kLast'.rejected) = {}]_vars

\* C30 witness: a peer was returned for the second time, its retry count
\* now 2, while Reachable refused another offline peer, whose retry count
\* is as it was.
C30_Witness ==
    /\ kLast.op = "SuggestPeer"
    /\ kLast.a # NoPeer
    /\ kAddrs[kLast.a].retries = 2
    /\ \E p \in kLast.rejected : p # kLast.a /\ kAddrs[p].retries = 0

(***************************************************************************)
(* Kademlia table: retry limit, no delete, pruning                         *)
(***************************************************************************)
\* C31: between two liveness transitions of a peer SuggestPeer returns it at
\* most MaxRetries times: the retry count of an entry, which On and Off
\* reset and every return of the peer raises by one, never exceeds MaxRetries
C31_MaxRedials ==
    \A p \in Known : kAddrs[p].retries <= MaxRetries

\* the retries of peer p are used up
Exhausted(p) == p \in Known /\ kAddrs[p].retries > MaxRetries

\* C32: no operation of the table deletes from the known index: an address
\* once known stays known; a peer whose retries are used up keeps its record
\* and is not returned by SuggestPeer, until On or Off of that peer replaces
\* the record.
C32_NoDelete ==
    [][/\ Known \subseteq DOMAIN kAddrs'
       /\ \A p \in Known :
              Exhausted(p) =>
                  /\ (kLast'.op = "SuggestPeer" /\ kNow' = kNow) => kLast'.a # p
                  /\ kAddrs'[p] # kAddrs[p] =>
                         kLast'.op \in {"On", "Off"} /\ kLast'.a = p]_vars

\* C32 witness: with every retry wait elapsed, SuggestPeer passed over a
\* known offline peer whose retries were used up before the call.
C32_Witness ==
    /\ kLast.op = "SuggestPeer"
    /\ kNow = MaxTime
    /\ \E p \in Known \ kConns : Exhausted(p) /\ kLast.a # p

\* the bins of the tick in progress, or of the last tick, that EachBin has
\* visited, and the calls of Drop made in one of them
VisitedBins ==
    {PO(kBase, p) : p \in pr.snap} \ {pr.bins[i] : i \in 1..Len(pr.bins)}
DropsIn(po) == {j \in 1..Len(pr.drops) : pr.drops[j].po = po}
DroppedIn(po) == {pr.drops[j].peer : j \in DropsIn(po)}

\* C33: on each tick, for every bin with more live peers than MaxBinSize,
\* Drop is called on exactly count - MinBinSize distinct peers of the bin,
\* which leaves MinBinSize of them; no peer of a bin with at most MaxBinSize
\* peers is dropped; a tick is taken only when the one before is done.
C33_Prune ==
    /\ \A po \in VisitedBins :
           LET bin == Bin(pr.snap, kBase, po)
               size == Cardinality(bin)
           IN  IF size > MaxBinSize
               THEN /\ Cardinality(DropsIn(po)) = size - MinBinSize
                    /\ Cardinality(DroppedIn(po)) = size - MinBinSize
                    /\ DroppedIn(po) \subseteq bin
                    /\ Cardinality(bin \ DroppedIn(po)) = MinBinSize
               ELSE DropsIn(po) = {}
    /\ \A j \in 1..Len(pr.drops) : pr.drops[j].po \in VisitedBins
    /\ pr.sent - pr.chan = pr.done + (IF pr.loop = "bins" THEN 1 ELSE 0)

\* C33 witness: the second tick is done; it found one bin above MaxBinSize
\* and one bin not above it, and a peer it dropped has disconnected since.
C33_Witness ==
    /\ pr.done = 2
    /\ pr.loop = "range"
    /\ pr.drops # <<>>
    /\ \E po \in VisitedBins : Bin(pr.snap, kBase, po) # {} /\ DropsIn(po) = {}
    /\ pr.live # pr.snap

(***************************************************************************)
(* pss: destination length, flood guard under concurrency, expiry          *)
(***************************************************************************)
\* C34: a message whose destination is longer than the address is rejected
\* or dropped by handlePssMsg: it does not crash the node, and it reaches
\* neither processing nor forwarding
C34_DestinationLength ==
    (probe.ret # NoInbound /\ ByteLen(probe.req.to) > AddrLen)
        => probe.ret \in {"expired", "invalidTTL"}

\* forward calls i and j of one node run at the same time for the same
\* message, stored under its digest: both have passed the flood guard and
\* neither has returned
Concurrent(i, j) ==
    /\ i # j
    /\ calls[i].digest = Serialize(calls[i].msg)
    /\ calls[j].digest = Serialize(calls[j].msg)
    /\ calls[i].node = calls[j].node
    /\ calls[i].msg = calls[j].msg
    /\ calls[i].phase \in {"iter", "cache"} /\ ~calls[i].blocked
    /\ calls[j].phase \in {"iter", "cache"} /\ ~calls[j].blocked

\* C35: the flood-guard check and the recording of the digest are atomic
\* with respect to other forward calls: two forward calls running at the
\* same time for the same message do not both pass the guard and both send
\* the message to the same peer
C35_GuardAtomic ==
    \A i, j \in 1..Len(calls) :
        Concurrent(i, j) => SentTo(calls[i].tried) \cap SentTo(calls[j].tried) = {}

\* C36: on no path through handlePssMsg is a message forwarded whose expiry
\* is in the past when it is handled: no forward call is started for it
C36_ExpiredRelay ==
    \A h \in handled : h.msg.expire < h.time => h.call = 0

(***************************************************************************)
(* pss: unsubscribe, symmetric decryption, decrypt cache                   *)
(***************************************************************************)
\* C37: the closure Register returned removes only the handler it was made
\* for, and calling it again changes nothing: a handler whose own closure
\* has not been called is in the handlers of its topic
C37_Unsubscribe ==
    \A k \in DOMAIN hRegs :
        ~hRegs[k].called => k \in MapEntries(hTopics[hRegs[k].topic])

\* C38: processSym returns a result or an error for every envelope that a
\* key in the decrypt cache opens, also when that key has no binding for the
\* topic of the envelope: it does not crash on the missing binding
C38_MissingBinding ==
    keyLast.op # "processSym:nobinding"

\* the key ids the scan of the decrypt cache reads, newest first
CacheWindow ==
    [j \in 1..Len(CacheScan(symKeyDecryptCacheCursor)) |->
        symKeyDecryptCache[CacheScan(symKeyDecryptCacheCursor)[j] % SymKeyCacheCapacity]]

\* C39: the window of the decrypt cache holds distinct key ids, the most
\* recently used ones: using a key that is in the cache moves it to the
\* front and evicts no other key; and the scan reads no unset slot
C39_RecencyCache ==
    /\ \A j \in 1..Len(CacheWindow) : CacheWindow[j] # NoKeyId
    /\ \A i, j \in 1..Len(CacheWindow) : i # j => CacheWindow[i] # CacheWindow[j]

(***************************************************************************)
(* connection manager: assignments are never released                      *)
(***************************************************************************)
\* the maps only grew over the request in cmLast: no node left c.assigned and
\* no client IP lost its entry in c.clients; with CMAssignedSound, the two
\* state conditions of C40. Closing a connection runs no code of connManager,
\* so requests are the only steps that touch the maps.
CMNothingReleased ==
    /\ cmLast.before.assigned \subseteq assigned
    /\ \A ip \in ClientIPs : cmLast.before.clients[ip] # NoNode => clients[ip] # NoNode
CMAssignedSound ==
    /\ assigned \subseteq SimNodes
    /\ Cardinality(assigned) <= NodeCount
    /\ \A ip \in ClientIPs : clients[ip] # NoNode => clients[ip] \in assigned
\* the request in cmLast came, with every node assigned, from a client IP
\* that had no entry in c.clients
CMNewClientWhenFull ==
    /\ cmLast.status # 0
    /\ CMLastParsed
    /\ cmLast.before.assigned = SimNodes
    /\ cmLast.before.clients[CMLastIP] = NoNode

\* C40 as stated: no request removes a node from the assigned set or an
\* entry from the client map, the assigned set never exceeds the node count,
\* every node in the client map is assigned, and once all nodes are assigned
\* every request from a new client IP gets 503.
C40_Original ==
    /\ CMNothingReleased
    /\ CMAssignedSound
    /\ CMNewClientWhenFull => cmLast.status = 503

\* C40 amended: as above, but only the requests that are routed to getNode
\* get 503 from a new client IP once all nodes are assigned; the second
\* source answers /list itself.
C40_Permanent ==
    /\ CMNothingReleased
    /\ CMAssignedSound
    /\ (CMNewClientWhenFull /\ CMRouted) => (cmLast.status = 503 /\ CMUnchanged)

\* C40 witness: with both nodes held by two other client IPs, a third IP
\* asked for a node and got 503, and both earlier entries are still there.
C40_Witness ==
    /\ CMNewClientWhenFull
    /\ CMRouted
    /\ cmLast.status = 503
    /\ Cardinality({ip \in ClientIPs : clients[ip] # NoNode}) = NodeCount

====
